---- MODULE Spec2Model ----
(***************************************************************************)
(* A model of the realm authoritative DNS server: the message truncation   *)
(* routine, the resolver (resolve_impl / resolve_query), the EDNS option   *)
(* handlers and the server cookie.                                         *)
(***************************************************************************)
EXTENDS Integers, Sequences, FiniteSets, TLC

VARIABLES
    zone,        \* the zone tree, as the set of records loaded into it
    config,      \* the fields of ServerConfig the handlers read
    now,         \* seconds since the epoch, as a u32 (SystemTime::now() as u32)
    conn,        \* ConnectionContext: addr, keepalive
    query,       \* the decoded query being resolved
    response,    \* the response Message under construction
    queue,       \* resolve_query's worklist (a Vec used as a stack: the end is the top)
    resolved,    \* QueryContext.resolved
    pc,          \* "idle" | "resolving" | "done"
    jar,         \* the cookie option the client was last sent, with the address it went to
    msg,         \* the Message truncate_to works on
    limit,       \* the argument of truncate_to
    orig,        \* msg as it was before truncate_to
    tpc,         \* "ready" | "truncated" | "sent"
    packet,      \* the datagram or frame the server is handling
    stream       \* the task of one stream connection

vars == <<zone, config, now, conn, query, response, queue, resolved, pc, jar,
          msg, limit, orig, tpc, packet, stream>>

resolverVars == <<zone, config, now, conn, query, response, queue, resolved, pc, jar>>
truncVars == <<msg, limit, orig, tpc>>
serverVars == <<packet, stream>>

----------------------------------------------------------------------------
(* Bounds of the model *)

MaxSectionLen == 2
MaxLimit == 96
MaxQuestions == 2
MaxOptions == 2

----------------------------------------------------------------------------
(* Names, classes, types *)

Root == <<>>
Ex == <<"ex">>
WwwEx == <<"www", "ex">>
HostEx == <<"host", "ex">>
MailEx == <<"mail", "ex">>
MissEx == <<"miss", "ex">>
BigEx == <<"big", "ex">>
HugeEx == <<"huge", "ex">>

RECURSIVE SumSeq(_)
SumSeq(s) ==
    IF s = <<>> THEN 0
    ELSE IF Len(s) = 1 THEN s[1]
    ELSE LET half == Len(s) \div 2
         IN  SumSeq(SubSeq(s, 1, half)) + SumSeq(SubSeq(s, half + 1, Len(s)))

\* Label::size
LabelSize(label) == Len(label) + 1

\* Name::size
NameSize(name) == SumSeq([i \in 1..Len(name) |-> LabelSize(name[i])]) + 1

In == "IN"
Ch == "CH"

TypeA == "A"
TypeNs == "NS"
TypeCname == "CNAME"
TypeSoa == "SOA"
TypeMx == "MX"
TypeAaaa == "AAAA"
TypeTxt == "TXT"

\* ResponseCode
NoError == 0
NonExistentDomain == 3
NotImplemented == 4
QueryRefused == 5
BadSignature == 16
BadCookie == 23

\* Message.edns_version = None
NoEdns == -1

\* TcpKeepaliveOpt.timeout = None
NoTimeout == -1

Question(name, qclass, qtype) == [name |-> name, qclass |-> qclass, qtype |-> qtype]

\* A record: owner, class, type and the name its rdata carries (NS authority,
\* CNAME canonical, MX exchange, SOA primary and admin); A records carry an address.
Rec(name, rclass, rtype, target) ==
    [name |-> name, rclass |-> rclass, rtype |-> rtype, target |-> target]

\* A TXT record of two strings of 255 bytes; its rdata is given by the lengths
\* of its strings.
BulkRecord == Rec(BigEx, In, TypeTxt, <<255, 255>>)

\* A TXT record of 257 strings of 255 bytes: 65,792 bytes of rdata.
HugeRecord == Rec(HugeEx, In, TypeTxt, [i \in 1..257 |-> 255])

\* The entries a zone file may hold, in file order.
ZoneFile ==
    << Rec(Root, In, TypeSoa, Ex),
       Rec(Ex, In, TypeSoa, Ex),
       Rec(Ex, In, TypeNs, HostEx),
       Rec(WwwEx, In, TypeCname, HostEx),
       Rec(HostEx, In, TypeCname, MailEx),
       Rec(MailEx, In, TypeA, Root),
       Rec(Ex, In, TypeMx, MailEx),
       Rec(MailEx, In, TypeCname, WwwEx),
       BulkRecord,
       HugeRecord >>

ZoneRecords == {ZoneFile[i] : i \in 1..Len(ZoneFile)}

\* The questions a client may ask.
QuestionPool ==
    { Question(WwwEx, In, TypeA), Question(HostEx, In, TypeA),
      Question(MailEx, In, TypeA), Question(MissEx, In, TypeA),
      Question(Ex, In, TypeMx),
      Question(WwwEx, In, TypeCname), Question(MailEx, Ch, TypeA) }

SeqsUpTo(S, n) == UNION {[1..k -> S] : k \in 0..n}

----------------------------------------------------------------------------
(* Wire sizes *)

\* Question::size
QuestionSize(q) == NameSize(q.name) + 4

\* RecordData::data_size of each record type
DataSize(r) ==
    CASE r.rtype = TypeA -> 4
      [] r.rtype = TypeNs -> NameSize(r.target)
      [] r.rtype = TypeCname -> NameSize(r.target)
      [] r.rtype = TypeMx -> NameSize(r.target) + 2
      [] r.rtype = TypeSoa -> NameSize(r.target) + NameSize(r.target) + 20
      [] r.rtype = TypeTxt -> SumSeq([i \in 1..Len(r.target) |-> r.target[i] + 1])

\* Record::size
RecordSize(r) == 10 + NameSize(r.name) + DataSize(r)

\* OptData::data_size of each option
OptDataSize(o) ==
    CASE o.code = "Cookie" -> 8 + o.server.len
      [] o.code = "TcpKeepalive" -> IF o.timeout = NoTimeout THEN 0 ELSE 2
      [] o.code = "NameServerIdentifier" -> o.len
      [] o.code = "Padding" -> o.len

\* Opt::size
OptSize(o) == 4 + OptDataSize(o)

SizesOf(items, kind) ==
    [i \in 1..Len(items) |->
        CASE kind = "question" -> QuestionSize(items[i])
          [] kind = "record" -> RecordSize(items[i])
          [] kind = "opt" -> OptSize(items[i])]

\* WireEncode for Message: size
MessageSize(m) ==
    (IF m.edns_version # NoEdns THEN 23 + SumSeq(SizesOf(m.options, "opt")) ELSE 12)
    + SumSeq(SizesOf(m.questions, "question"))
    + SumSeq(SizesOf(m.answers, "record"))
    + SumSeq(SizesOf(m.authorities, "record"))
    + SumSeq(SizesOf(m.additionals, "record"))

\* The bytes Question::encode writes: the name, qtype, qclass
QuestionEncodedLen(q) == NameSize(q.name) + 2 + 2

\* The bytes Record::encode writes: name, type, class, ttl, rdlen, rdata
RecordEncodedLen(r) == NameSize(r.name) + 2 + 2 + 4 + 2 + DataSize(r)

\* The bytes Opt::encode writes: code, length, data
OptEncodedLen(o) == 2 + 2 + OptDataSize(o)

RECURSIVE SumOver(_, _)
SumOver(items, kind) ==
    IF items = <<>> THEN 0
    ELSE (CASE kind = "question" -> QuestionEncodedLen(Head(items))
            [] kind = "record" -> RecordEncodedLen(Head(items))
            [] kind = "opt" -> OptEncodedLen(Head(items)))
         + SumOver(Tail(items), kind)

\* The number of bytes Message::encode writes: id, flags, four counts, the
\* questions, answers, authorities, the synthesized OPT record (root name, type,
\* class, ttl, rdlen, options) when EDNS is enabled, the additionals.
EncodedLen(m) ==
    2 + 2 + 2 + 2 + 2 + 2
    + SumOver(m.questions, "question")
    + SumOver(m.answers, "record")
    + SumOver(m.authorities, "record")
    + (IF m.edns_version # NoEdns
       THEN NameSize(Root) + 2 + 2 + 4 + 2 + SumOver(m.options, "opt")
       ELSE 0)
    + SumOver(m.additionals, "record")

----------------------------------------------------------------------------
(* Message *)

\* Message::new
NewMessage(id) ==
    [ id |-> id,
      packet_type |-> "Query",
      opcode |-> "Query",
      authoritative_answer |-> FALSE,
      truncated |-> FALSE,
      recursion_desired |-> FALSE,
      recursion_available |-> FALSE,
      response_code |-> NoError,
      udp_payload_size |-> 512,
      edns_version |-> NoEdns,
      options |-> <<>>,
      questions |-> <<>>,
      answers |-> <<>>,
      authorities |-> <<>>,
      additionals |-> <<>> ]

\* The loop of the iter! macro of truncate_to over one section: the index at
\* which the budget went negative (cut), or the budget left after the section.
RECURSIVE IterSection(_, _, _)
IterSection(sizes, index, size) ==
    IF index > Len(sizes)
    THEN [cut |-> FALSE, kept |-> Len(sizes), size |-> size]
    ELSE IF size - sizes[index] < 0
         THEN [cut |-> TRUE, kept |-> index - 1, size |-> size - sizes[index]]
         ELSE IterSection(sizes, index + 1, size - sizes[index])

\* EdnsBudget with the OPT record kept but not charged to the budget.
EdnsBudgetUncharged(m, n) ==
    LET size == n - 12
        edns_size == 11 + SumSeq(SizesOf(m.options, "opt"))
    IN  IF m.edns_version # NoEdns /\ size - edns_size < 0
        THEN [m |-> [m EXCEPT !.edns_version = NoEdns, !.truncated = TRUE],
              size |-> size]
        ELSE [m |-> m, size |-> size]

\* EdnsBudget with the OPT record dropped without setting TC.
EdnsBudgetSilentDrop(m, n) ==
    LET size == n - 12
        edns_size == 11 + SumSeq(SizesOf(m.options, "opt"))
    IN  IF m.edns_version # NoEdns
        THEN IF size - edns_size < 0
             THEN [m |-> [m EXCEPT !.edns_version = NoEdns], size |-> size]
             ELSE [m |-> m, size |-> size - edns_size]
        ELSE [m |-> m, size |-> size]

\* The first step of truncate_to: the budget after the header and the OPT record.
EdnsBudget(m, n) ==
    LET size == n - 12
        edns_size == 11 + SumSeq(SizesOf(m.options, "opt"))
    IN  IF m.edns_version # NoEdns
        THEN IF size - edns_size < 0
             THEN [m |-> [m EXCEPT !.edns_version = NoEdns, !.truncated = TRUE],
                   size |-> size]
             ELSE [m |-> m, size |-> size - edns_size]
        ELSE [m |-> m, size |-> size]

\* Message::truncate_to
TruncateTo(m0, n) ==
    LET e == EdnsBudget(m0, n)
        m == e.m
        q == IterSection(SizesOf(m.questions, "question"), 1, e.size)
        an == IterSection(SizesOf(m.answers, "record"), 1, q.size)
        au == IterSection(SizesOf(m.authorities, "record"), 1, an.size)
        ad == IterSection(SizesOf(m.additionals, "record"), 1, au.size)
    IN  IF q.cut
        THEN [m EXCEPT !.questions = SubSeq(m.questions, 1, q.kept),
                       !.answers = <<>>, !.authorities = <<>>, !.additionals = <<>>,
                       !.truncated = TRUE]
        ELSE IF an.cut
        THEN [m EXCEPT !.answers = SubSeq(m.answers, 1, an.kept),
                       !.authorities = <<>>, !.additionals = <<>>,
                       !.truncated = TRUE]
        ELSE IF au.cut
        THEN [m EXCEPT !.authorities = SubSeq(m.authorities, 1, au.kept),
                       !.additionals = <<>>,
                       !.truncated = TRUE]
        ELSE IF ad.cut
        THEN [m EXCEPT !.additionals = SubSeq(m.additionals, 1, ad.kept),
                       !.truncated = TRUE]
        ELSE m

----------------------------------------------------------------------------
(* Zone tree *)

Suffix(name, k) == SubSeq(name, Len(name) - k + 1, Len(name))

\* A node exists for the root and for every name on the path to the owner of a
\* record: handle_entry inserts each label of the owner, from the root down.
NodeExists(name) ==
    \/ name = Root
    \/ \E r \in zone : Len(r.name) >= Len(name) /\ Suffix(r.name, Len(name)) = name

\* Node::resource_record_set of the node of `name`: the records in insertion order.
ResourceRecordSet(name, rclass, rtype) ==
    SelectSeq(ZoneFile,
              LAMBDA r : r \in zone /\ r.name = name /\ r.rclass = rclass /\ r.rtype = rtype)

\* find_authorities taking any record of the node for an authority
FindAuthoritiesAnyType(name, qclass) ==
    SelectSeq(ZoneFile, LAMBDA r : r \in zone /\ r.name = name /\ r.rclass = qclass)

\* find_authorities preferring the NS set over the SOA set
FindAuthoritiesNsFirst(name, qclass) ==
    LET soa_records == ResourceRecordSet(name, qclass, TypeSoa)
        ns_records == ResourceRecordSet(name, qclass, TypeNs)
    IN  IF ns_records # <<>> THEN ns_records ELSE soa_records

\* find_authorities
FindAuthorities(name, qclass) ==
    LET soa_records == ResourceRecordSet(name, qclass, TypeSoa)
        ns_records == ResourceRecordSet(name, qclass, TypeNs)
    IN  IF soa_records # <<>> THEN soa_records
        ELSE IF ns_records # <<>> THEN ns_records
        ELSE <<>>

\* The loop of find_node: k labels of the name have been walked from the root.
RECURSIVE FindNodeLoop(_, _, _, _, _)
FindNodeLoop(name, qclass, k, node, authorities) ==
    IF k > Len(name)
    THEN [node |-> node, authorities |-> authorities]
    ELSE LET child == node /\ NodeExists(Suffix(name, k))
             node_authorities == FindAuthorities(Suffix(name, k), qclass)
         IN  FindNodeLoop(name, qclass, k + 1, child,
                          IF child /\ node_authorities # <<>>
                          THEN node_authorities ELSE authorities)

\* find_node: whether the node of the name exists, and the closest authorities.
FindNode(name, qclass) ==
    FindNodeLoop(name, qclass, 1, TRUE, FindAuthorities(Root, qclass))

Item(q, kind) == [q |-> q, kind |-> kind]

\* additionals without the follow-up of a CNAME
AdditionalsNoAlias(r, question) ==
    IF r.rtype \in {TypeNs, TypeMx}
    THEN << Item(Question(r.target, r.rclass, TypeA), "Additional"),
            Item(Question(r.target, r.rclass, TypeAaaa), "Additional") >>
    ELSE <<>>

\* RecordData::additionals of each record type
Additionals(r, question) ==
    CASE r.rtype = TypeCname ->
            IF question.qtype = TypeCname THEN <<>>
            ELSE << Item(Question(r.target, r.rclass, question.qtype), "Alias") >>
      [] r.rtype \in {TypeNs, TypeMx} ->
            << Item(Question(r.target, r.rclass, TypeA), "Additional"),
               Item(Question(r.target, r.rclass, TypeAaaa), "Additional") >>
      [] OTHER -> <<>>

----------------------------------------------------------------------------
(* resolve_query *)

\* The loop over the authorities of a name without a node: each authority is
\* added, its additionals queued, and the first SOA of a Question returns.
RECURSIVE AuthorityLoop(_, _, _, _, _)
AuthorityLoop(authorities, i, item, resp, q) ==
    IF i > Len(authorities)
    THEN [response |-> resp, queue |-> q, returned |-> FALSE]
    ELSE LET authority == authorities[i]
             resp1 == [resp EXCEPT !.authorities = Append(@, authority)]
             q1 == q \o Additionals(authority, item.q)
         IN  IF item.kind = "Question" /\ authority.rtype = TypeSoa
             THEN [response |-> [resp1 EXCEPT !.response_code = NonExistentDomain],
                   queue |-> q1, returned |-> TRUE]
             ELSE AuthorityLoop(authorities, i + 1, item, resp1, q1)

\* The first loop over the CNAME set of the node: the additionals are queued.
RECURSIVE CnameLoop(_, _, _, _)
CnameLoop(answers, i, item, q) ==
    IF i > Len(answers) THEN q
    ELSE CnameLoop(answers, i + 1, item, q \o Additionals(answers[i], item.q))

\* The loop over the answers: each goes to the answer or the additional section
\* and its additionals are queued.
RECURSIVE AnswerLoop(_, _, _, _, _)
AnswerLoop(answers, i, item, resp, q) ==
    IF i > Len(answers)
    THEN [response |-> resp, queue |-> q, returned |-> FALSE]
    ELSE LET resp1 == IF item.kind # "Additional"
                      THEN [resp EXCEPT !.answers = Append(@, answers[i])]
                      ELSE [resp EXCEPT !.additionals = Append(@, answers[i])]
         IN  AnswerLoop(answers, i + 1, item, resp1, q \o Additionals(answers[i], item.q))

\* The body of the while loop of resolve_query for an item that is not yet
\* resolved; q is the worklist after the pop.
ResolveItem(item, resp, q) ==
    LET found == FindNode(item.q.name, item.q.qclass)
        cnames == ResourceRecordSet(item.q.name, item.q.qclass, TypeCname)
        answers == IF cnames = <<>>
                   THEN ResourceRecordSet(item.q.name, item.q.qclass, item.q.qtype)
                   ELSE cnames
    IN  IF found.authorities = <<>> /\ item.kind = "Question"
        THEN [response |-> [resp EXCEPT !.response_code = QueryRefused],
              queue |-> q, returned |-> TRUE]
        ELSE IF ~found.node
        THEN AuthorityLoop(found.authorities, 1, item, resp, q)
        ELSE AnswerLoop(answers, 1, item, resp, CnameLoop(cnames, 1, item, q))

\* One iteration of the loop with the resolved set not consulted
ResolveQueryStepUnguarded ==
    /\ pc = "resolving"
    /\ queue # <<>>
    /\ LET item == queue[Len(queue)]
           rest == SubSeq(queue, 1, Len(queue) - 1)
           out == ResolveItem(item, response, rest)
       IN  /\ resolved' = resolved \cup {item.q}
           /\ response' = out.response
           /\ queue' = out.queue
           /\ pc' = IF out.returned THEN "done" ELSE "resolving"
    /\ UNCHANGED <<zone, config, now, conn, query, jar>>
    /\ UNCHANGED truncVars
    /\ UNCHANGED serverVars

\* One iteration of the while loop of resolve_query.
ResolveQueryStep ==
    /\ pc = "resolving"
    /\ queue # <<>>
    /\ LET item == queue[Len(queue)]
           rest == SubSeq(queue, 1, Len(queue) - 1)
           out == ResolveItem(item, response, rest)
       IN  IF item.q \in resolved
           THEN /\ queue' = rest
                /\ UNCHANGED <<response, resolved, pc>>
           ELSE /\ resolved' = resolved \cup {item.q}
                /\ response' = out.response
                /\ queue' = out.queue
                /\ pc' = IF out.returned THEN "done" ELSE "resolving"
    /\ UNCHANGED <<zone, config, now, conn, query, jar>>
    /\ UNCHANGED truncVars
    /\ UNCHANGED serverVars

\* The worklist is empty: resolve_query returns, and resolve_impl with it.
ResolveQueryReturn ==
    /\ pc = "resolving"
    /\ queue = <<>>
    /\ pc' = "done"
    /\ UNCHANGED <<zone, config, now, conn, query, response, queue, resolved, jar>>
    /\ UNCHANGED truncVars
    /\ UNCHANGED serverVars

----------------------------------------------------------------------------
(* Serial numbers and the server cookie *)

\* A u32 is kept at its full width as two 16-bit limbs <<high, low>>.
LimbModulus == 65536

U32Of(n) == <<(n \div LimbModulus) % LimbModulus, n % LimbModulus>>

\* u32::wrapping_add
WrappingAdd(a, b) ==
    LET low == a[2] + b[2]
    IN  <<(a[1] + b[1] + (low \div LimbModulus)) % LimbModulus, low % LimbModulus>>

\* u32::wrapping_sub
WrappingSub(a, b) ==
    LET low == a[2] - b[2] + LimbModulus
    IN  <<(a[1] - b[1] + LimbModulus + (low \div LimbModulus) - 1) % LimbModulus,
          low % LimbModulus>>

\* a < b on u32
U32Less(a, b) == a[1] < b[1] \/ (a[1] = b[1] /\ a[2] < b[2])

\* Serial::COMPARISON_THRESHOLD one too small, 2^31 - 1
ThresholdBelow == <<32767, 65535>>

\* Serial::COMPARISON_THRESHOLD, 2^31
ComparisonThreshold == <<32768, 0>>

\* PartialOrd for Serial: partial_cmp
SerialCmp(a, b) ==
    IF a = b THEN "Equal"
    ELSE IF \/ (U32Less(a, b) /\ U32Less(WrappingSub(b, a), ComparisonThreshold))
            \/ (U32Less(b, a) /\ U32Less(ComparisonThreshold, WrappingSub(a, b)))
    THEN "Less"
    ELSE IF \/ (U32Less(a, b) /\ U32Less(ComparisonThreshold, WrappingSub(b, a)))
            \/ (U32Less(b, a) /\ U32Less(WrappingSub(a, b), ComparisonThreshold))
    THEN "Greater"
    ELSE "None"

\* a >= b on Serial, as PartialOrd derives it from partial_cmp
SerialGe(a, b) == SerialCmp(a, b) \in {"Greater", "Equal"}

\* The SipHash-2-4 MAC of a server cookie, keyed by the secret, over the client
\* cookie, version, reserved bytes, timestamp and peer address: an injective
\* stand-in for the hash.
Mac(secret, client, version, reserved, ts, addr) ==
    <<secret, client, version, reserved, ts, addr>>

NoServerCookie == [len |-> 0]

ServerCookie(version, reserved, ts, mac) ==
    [len |-> 16, version |-> version, reserved |-> reserved, ts |-> ts, mac |-> mac]

CookieOpt(client, server) == [code |-> "Cookie", client |-> client, server |-> server]

\* A response cookie whose MAC leaves the peer address out
CookieResponseWithoutAddress(o, cfg, c, t) ==
    CookieOpt(o.client,
              ServerCookie(1, 0, t, Mac(cfg.cookie_secret, o.client, 1, 0, t, "")))

\* CookieOpt::response
CookieResponse(o, cfg, c, t) ==
    CookieOpt(o.client,
              ServerCookie(1, 0, t, Mac(cfg.cookie_secret, o.client, 1, 0, t, c.addr)))

\* The timestamp test of CookieOpt::validate: TRUE when the cookie is rejected.
TimestampRejected(ts, t) ==
    /\ SerialGe(WrappingSub(t, U32Of(3600)), ts)
    /\ SerialGe(ts, WrappingAdd(t, U32Of(300)))

\* CookieOpt::validate
CookieValidate(o, cfg, c, t) ==
    IF cfg.cookie_strategy = "Off" THEN TRUE
    ELSE IF o.server.len = 0 /\ cfg.cookie_strategy = "Validate" THEN TRUE
    ELSE IF o.server.len # 16 THEN FALSE
    ELSE IF o.server.version # 1 THEN FALSE
    ELSE IF TimestampRejected(o.server.ts, t) THEN FALSE
    ELSE Mac(cfg.cookie_secret, o.client, 1, o.server.reserved, o.server.ts, c.addr)
            = o.server.mac

----------------------------------------------------------------------------
(* EDNS option handlers *)

KeepaliveOpt(timeout) == [code |-> "TcpKeepalive", timeout |-> timeout]
NsidOpt(len) == [code |-> "NameServerIdentifier", len |-> len]
PaddingOpt(len) == [code |-> "Padding", len |-> len]

\* with_duration taking the duration in seconds
KeepaliveWithSeconds(ms) == KeepaliveOpt((ms \div 1000) % 65536)

\* TcpKeepaliveOpt::with_duration, the duration in milliseconds
KeepaliveWithDuration(ms) == KeepaliveOpt((ms \div 100) % 65536)

\* OptData::handle of each option: the response and connection after it, and
\* whether it asks to return early.
HandleOption(o, resp, c, cfg, t) ==
    CASE o.code = "Cookie" ->
            IF ~cfg.cookie_enabled
            THEN [response |-> resp, conn |-> c, early |-> FALSE]
            ELSE LET resp1 == [resp EXCEPT !.options = Append(@, CookieResponse(o, cfg, c, t))]
                 IN  IF ~CookieValidate(o, cfg, c, t)
                     THEN [response |-> [resp1 EXCEPT !.response_code = BadCookie],
                           conn |-> c, early |-> TRUE]
                     ELSE [response |-> resp1, conn |-> c, early |-> FALSE]
      [] o.code = "TcpKeepalive" ->
            LET c1 == IF o.timeout # NoTimeout
                      THEN [c EXCEPT !.keepalive = o.timeout * 100]
                      ELSE c
            IN  [response |-> [resp EXCEPT !.options =
                                   Append(@, KeepaliveWithDuration(c1.keepalive))],
                 conn |-> c1, early |-> FALSE]
      [] o.code = "NameServerIdentifier" ->
            IF ~cfg.identity_enabled
            THEN [response |-> resp, conn |-> c, early |-> FALSE]
            ELSE [response |-> [resp EXCEPT !.options = Append(@, NsidOpt(cfg.identity_len))],
                  conn |-> c, early |-> FALSE]
      [] OTHER -> [response |-> resp, conn |-> c, early |-> FALSE]

\* The loop of resolve_impl over the options of the query.
RECURSIVE OptionsLoop(_, _, _, _, _, _)
OptionsLoop(options, i, resp, c, cfg, t) ==
    IF i > Len(options)
    THEN [response |-> resp, conn |-> c, early |-> FALSE]
    ELSE LET h == HandleOption(options[i], resp, c, cfg, t)
         IN  IF h.early THEN h
             ELSE OptionsLoop(options, i + 1, h.response, h.conn, cfg, t)

----------------------------------------------------------------------------
(* resolve_impl *)

\* A response that takes AA and RD from the query
FreshResponseCopiesFlags(q) ==
    [NewMessage(q.id) EXCEPT
        !.packet_type = "Response",
        !.opcode = q.opcode,
        !.authoritative_answer = q.authoritative_answer,
        !.recursion_desired = FALSE,
        !.response_code = NoError,
        !.questions = q.questions]

\* The response resolve_impl starts from.
FreshResponse(q) ==
    [NewMessage(q.id) EXCEPT
        !.packet_type = "Response",
        !.opcode = q.opcode,
        !.authoritative_answer = TRUE,
        !.recursion_desired = q.recursion_desired,
        !.recursion_available = FALSE,
        !.response_code = NoError,
        !.questions = q.questions]

\* The match on the EDNS version without the early return
EdnsStageNoReturn(q, resp, cfg) ==
    IF q.edns_version # NoEdns
    THEN LET resp1 == [resp EXCEPT !.edns_version = 0,
                                   !.udp_payload_size = cfg.udp_max_payload_size]
         IN  IF q.edns_version > 0
             THEN [response |-> [resp1 EXCEPT !.response_code = BadSignature],
                   early |-> FALSE]
             ELSE [response |-> resp1, early |-> FALSE]
    ELSE [response |-> resp, early |-> FALSE]

\* The match on the EDNS version of the query.
EdnsStage(q, resp, cfg) ==
    IF q.edns_version # NoEdns
    THEN LET resp1 == [resp EXCEPT !.edns_version = 0,
                                   !.udp_payload_size = cfg.udp_max_payload_size]
         IN  IF q.edns_version > 0
             THEN [response |-> [resp1 EXCEPT !.response_code = BadSignature],
                   early |-> TRUE]
             ELSE [response |-> resp1, early |-> FALSE]
    ELSE [response |-> resp, early |-> FALSE]

\* resolve_impl resolving whatever the opcode
PreludeAnyOpcode(q, c, cfg, t) ==
    LET e == EdnsStage(q, FreshResponse(q), cfg)
        o == OptionsLoop(q.options, 1, e.response, c, cfg, t)
    IN  IF e.early
        THEN [response |-> e.response, conn |-> c, next |-> "done"]
        ELSE IF o.early
        THEN [response |-> o.response, conn |-> o.conn, next |-> "done"]
        ELSE [response |-> o.response, conn |-> o.conn, next |-> "resolving"]

\* resolve_impl up to the call of resolve_query: the outcome of the EDNS match,
\* the option handlers and the opcode test.
Prelude(q, c, cfg, t) ==
    LET e == EdnsStage(q, FreshResponse(q), cfg)
        o == OptionsLoop(q.options, 1, e.response, c, cfg, t)
    IN  IF e.early
        THEN [response |-> e.response, conn |-> c, next |-> "done"]
        ELSE IF o.early
        THEN [response |-> o.response, conn |-> o.conn, next |-> "done"]
        ELSE IF q.opcode = "Query"
        THEN [response |-> o.response, conn |-> o.conn, next |-> "resolving"]
        ELSE [response |-> [o.response EXCEPT !.response_code = NotImplemented],
              conn |-> o.conn, next |-> "done"]

\* resolve_impl is called with a query; it runs up to the worklist loop, which
\* starts from the questions of the query and a fresh resolved set.
ResolveImpl(q) ==
    /\ pc = "idle"
    /\ query' = q
    /\ LET p == Prelude(q, conn, config, now)
       IN  /\ response' = p.response
           /\ conn' = p.conn
           /\ pc' = p.next
           /\ queue' = IF p.next = "resolving"
                       THEN [i \in 1..Len(q.questions) |-> Item(q.questions[i], "Question")]
                       ELSE <<>>
    /\ resolved' = {}
    /\ UNCHANGED <<zone, config, now, jar>>
    /\ UNCHANGED truncVars
    /\ UNCHANGED serverVars

\* The response is sent and the query context dropped; the client keeps the
\* last cookie option the response carries, with the address it was sent to.
Respond ==
    /\ pc = "done"
    /\ pc' = "idle"
    /\ LET cookies == {i \in 1..Len(response.options) : response.options[i].code = "Cookie"}
           last == CHOOSE i \in cookies : \A j \in cookies : j <= i
       IN  jar' = IF cookies = {} THEN jar
                  ELSE {[addr |-> conn.addr, opt |-> response.options[last]]}
    /\ query' = NewMessage(0)
    /\ response' = NewMessage(0)
    /\ queue' = <<>>
    /\ resolved' = {}
    /\ UNCHANGED <<zone, config, now, conn>>
    /\ UNCHANGED truncVars
    /\ UNCHANGED serverVars

----------------------------------------------------------------------------
(* Resolution of plain queries against every zone *)

DefaultConfig ==
    [ cookie_enabled |-> TRUE,
      cookie_strategy |-> "Off",
      cookie_secret |-> "s1",
      identity_enabled |-> TRUE,
      identity_len |-> 4,
      udp_max_payload_size |-> 1232,
      keepalive |-> 300000 ]

\* Duration::from_secs(300), in milliseconds
StreamKeepalive == 300000

\* A connection as listen_tcp opens it.
NewConnection(addr) == [addr |-> addr, keepalive |-> StreamKeepalive]

\* No datagram or frame at hand
NoPacket == [transport |-> "none"]

\* No stream connection accepted
NoStream == [state |-> "none", waited |-> 0, reads |-> <<>>, writes |-> <<>>]

ServerUnused ==
    /\ packet = NoPacket
    /\ stream = NoStream

TruncUnused ==
    /\ msg = NewMessage(0)
    /\ limit = 0
    /\ orig = NewMessage(0)
    /\ tpc = "ready"

PlainQueries ==
    { [NewMessage(4660) EXCEPT !.recursion_desired = TRUE, !.questions = qs] :
      qs \in SeqsUpTo(QuestionPool, MaxQuestions) }

InitResolve ==
    /\ zone \in SUBSET (ZoneRecords \ {BulkRecord, HugeRecord})
    /\ config = DefaultConfig
    /\ now = U32Of(5000)
    /\ conn = NewConnection("a1")
    /\ query = NewMessage(0)
    /\ response = NewMessage(0)
    /\ queue = <<>>
    /\ resolved = {}
    /\ pc = "idle"
    /\ jar = {}
    /\ TruncUnused
    /\ ServerUnused

ReceivePlain == \E q \in PlainQueries : ResolveImpl(q)

NextResolve ==
    \/ ReceivePlain
    \/ ResolveQueryStep
    \/ ResolveQueryReturn
    \/ Respond

SpecResolve == InitResolve /\ [][NextResolve]_vars

----------------------------------------------------------------------------
(* Properties of resolve_query *)

\* The worklist item the next iteration of the loop dequeues.
Dequeued == queue[Len(queue)]

\* The iteration is about to process a Question item it has not resolved yet.
ProcessesQuestion ==
    /\ pc = "resolving"
    /\ queue # <<>>
    /\ Dequeued.kind = "Question"
    /\ Dequeued.q \notin resolved

IsSuffixOf(name, full) == Len(name) <= Len(full) /\ Suffix(full, Len(name)) = name

\* The names from the root down to the name that hold an SOA or NS record of
\* the class.
AuthorityOwners(name, qclass) ==
    { r.name : r \in { x \in zone : /\ x.rtype \in {TypeSoa, TypeNs}
                                    /\ x.rclass = qclass
                                    /\ IsSuffixOf(x.name, name) } }

HoldsSoa(name, qclass) ==
    \E r \in zone : r.name = name /\ r.rclass = qclass /\ r.rtype = TypeSoa

\* The deepest name of the path holding an authority holds an SOA.
ClosestAuthorityIsSoa(name, qclass) ==
    \E owner \in AuthorityOwners(name, qclass) :
        /\ \A other \in AuthorityOwners(name, qclass) : Len(other) <= Len(owner)
        /\ HoldsSoa(owner, qclass)

\* The SOA record of that name.
ClosestSoa(name, qclass) ==
    CHOOSE r \in zone :
        /\ r.rtype = TypeSoa
        /\ r.rclass = qclass
        /\ r.name \in AuthorityOwners(name, qclass)
        /\ \A other \in AuthorityOwners(name, qclass) : Len(other) <= Len(r.name)

\* C3: when the loop processes an item of kind Question and no SOA and no NS
\* record of the query class is held by the root or by any node on the path to
\* the queried name, the iteration sets RCODE to Refused, adds no record, and
\* resolve_query returns with the rest of the worklist unprocessed.
RefusedWithoutAuthority ==
    [][ (ProcessesQuestion /\ AuthorityOwners(Dequeued.q.name, Dequeued.q.qclass) = {})
        => /\ response' = [response EXCEPT !.response_code = QueryRefused]
           /\ pc' = "done"
           /\ queue' = SubSeq(queue, 1, Len(queue) - 1) ]_vars

\* A query of two questions was refused at its last question, the first one
\* still on the worklist.
RefusedWithoutAuthorityWitness ==
    /\ pc = "done"
    /\ response.response_code = QueryRefused
    /\ Len(query.questions) = 2
    /\ Len(queue) = 1
    /\ AuthorityOwners(query.questions[2].name, query.questions[2].qclass) = {}
    /\ response.answers = <<>> /\ response.authorities = <<>>

HasSoaAncestor(name, qclass) ==
    \E r \in zone : r.rtype = TypeSoa /\ r.rclass = qclass /\ IsSuffixOf(r.name, name)

\* C4 as stated: every question of the query whose name has no node while an
\* ancestor holds an SOA of the class gets a response with RCODE NXDomain whose
\* authority section holds an SOA of an ancestor, and no answer of that name.
NxDomainUnderAnySoaAncestor ==
    pc = "done" =>
        \A i \in 1..Len(query.questions) :
            LET q == query.questions[i]
            IN  (~NodeExists(q.name) /\ HasSoaAncestor(q.name, q.qclass))
                => /\ response.response_code = NonExistentDomain
                   /\ \E j \in 1..Len(response.authorities) :
                          /\ response.authorities[j].rtype = TypeSoa
                          /\ IsSuffixOf(response.authorities[j].name, q.name)
                   /\ \A j \in 1..Len(response.answers) : response.answers[j].name # q.name

\* C4, amended: when the loop processes an item of kind Question whose name has
\* no node and whose closest authority on the path (the deepest node holding an
\* SOA or NS set of the class) holds an SOA, the iteration sets RCODE to
\* NXDomain, appends that SOA to the authority section, adds no answer and no
\* additional record, and resolve_query returns.
NxDomainUnderClosestSoa ==
    [][ (/\ ProcessesQuestion
         /\ ~NodeExists(Dequeued.q.name)
         /\ ClosestAuthorityIsSoa(Dequeued.q.name, Dequeued.q.qclass))
        => /\ response' = [response EXCEPT
                  !.response_code = NonExistentDomain,
                  !.authorities = Append(@, ClosestSoa(Dequeued.q.name, Dequeued.q.qclass))]
           /\ pc' = "done" ]_vars

\* miss.ex was asked of a zone whose root and whose ex both hold an SOA: the
\* response is NXDomain with the SOA of ex as its only record.
NxDomainUnderClosestSoaWitness ==
    /\ pc = "done"
    /\ query.questions = << Question(MissEx, In, TypeA) >>
    /\ {Rec(Root, In, TypeSoa, Ex), Rec(Ex, In, TypeSoa, Ex), Rec(Ex, In, TypeNs, HostEx)}
           \subseteq zone
    /\ response.response_code = NonExistentDomain
    /\ response.authorities = << Rec(Ex, In, TypeSoa, Ex) >>
    /\ response.answers = <<>>

RECURSIVE IsSubsequence(_, _)
IsSubsequence(s, t) ==
    IF s = <<>> THEN TRUE
    ELSE IF t = <<>> THEN FALSE
    ELSE IF Head(s) = Head(t) THEN IsSubsequence(Tail(s), Tail(t))
    ELSE IsSubsequence(s, Tail(t))

HoldsCname(name, qclass) ==
    \E r \in zone : r.name = name /\ r.rclass = qclass /\ r.rtype = TypeCname

\* The chain of a name: its CNAME and the chain of the canonical name, down to
\* the records of the type at a name without a CNAME; a name met again ends it.
RECURSIVE Chain(_, _, _, _)
Chain(name, qclass, qtype, seen) ==
    IF name \in seen THEN <<>>
    ELSE IF HoldsCname(name, qclass)
    THEN LET cname == CHOOSE r \in zone :
                          r.name = name /\ r.rclass = qclass /\ r.rtype = TypeCname
         IN  <<cname>> \o Chain(cname.target, qclass, qtype, seen \cup {name})
    ELSE SelectSeq(ZoneFile, LAMBDA r : /\ r \in zone /\ r.name = name
                                        /\ r.rclass = qclass /\ r.rtype = qtype)

\* C5 as stated: for every question of the query whose node holds a CNAME of
\* the class and whose type is not CNAME, the answer section holds the CNAME
\* followed by the chain of the canonical name, in that order, with RCODE NoError.
ChaseForEveryQuestion ==
    pc = "done" =>
        \A i \in 1..Len(query.questions) :
            LET q == query.questions[i]
            IN  (HoldsCname(q.name, q.qclass) /\ q.qtype # TypeCname)
                => /\ response.response_code = NoError
                   /\ IsSubsequence(Chain(q.name, q.qclass, q.qtype, {}), response.answers)

IsPrefix(s, t) == Len(s) <= Len(t) /\ SubSeq(t, 1, Len(s)) = s

\* C5, amended: for a query of one question whose node holds a CNAME of the
\* class, whose type is not CNAME and whose name lies under an SOA or NS set of
\* the class, the answer section begins with the CNAME followed by the chain of
\* the canonical name (each alias holding one CNAME), with RCODE NoError.
ChaseForSingleQuestion ==
    (pc = "done" /\ Len(query.questions) = 1) =>
        LET q == query.questions[1]
        IN  (/\ HoldsCname(q.name, q.qclass)
             /\ q.qtype # TypeCname
             /\ AuthorityOwners(q.name, q.qclass) # {})
            => /\ response.response_code = NoError
               /\ IsPrefix(Chain(q.name, q.qclass, q.qtype, {}), response.answers)

\* www.ex A was answered through www -> host -> mail.
ChaseForSingleQuestionWitness ==
    /\ pc = "done"
    /\ query.questions = << Question(WwwEx, In, TypeA) >>
    /\ response.response_code = NoError
    /\ response.answers = << Rec(WwwEx, In, TypeCname, HostEx),
                             Rec(HostEx, In, TypeCname, MailEx),
                             Rec(MailEx, In, TypeA, Root) >>

----------------------------------------------------------------------------
(* Queries of every shape against the whole zone file *)

\* The options a query may carry.
OptionPool ==
    { CookieOpt("c1", NoServerCookie), KeepaliveOpt(600), KeepaliveOpt(NoTimeout),
      NsidOpt(0), PaddingOpt(8) }

ImplQuestions ==
    { <<>>, << Question(WwwEx, In, TypeA) >>,
      << Question(MissEx, In, TypeA), Question(Ex, In, TypeMx) >> }

\* A query message: the header fields a client sets, its questions, and its OPT
\* record when it has one.
QueryMessage(id, opcode, rd, questions, version, options) ==
    [NewMessage(id) EXCEPT
        !.opcode = opcode,
        !.recursion_desired = rd,
        !.questions = questions,
        !.edns_version = version,
        !.options = options]

ImplQueries ==
    { QueryMessage(id, opcode, rd, qs, NoEdns, <<>>) :
        id \in {4660, 7}, opcode \in {"Query", "Status"}, rd \in BOOLEAN, qs \in ImplQuestions }
    \cup
    { QueryMessage(4660, opcode, TRUE, qs, version, options) :
        opcode \in {"Query", "Status"}, qs \in ImplQuestions, version \in {0, 1},
        options \in SeqsUpTo(OptionPool, MaxOptions) }

ImplConfigs ==
    { [DefaultConfig EXCEPT !.cookie_strategy = strategy, !.identity_enabled = identity] :
        strategy \in {"Off", "Enforce"}, identity \in BOOLEAN }

InitImpl ==
    /\ zone = ZoneRecords
    /\ config \in ImplConfigs
    /\ now = U32Of(5000)
    /\ conn = NewConnection("a1")
    /\ query = NewMessage(0)
    /\ response = NewMessage(0)
    /\ queue = <<>>
    /\ resolved = {}
    /\ pc = "idle"
    /\ jar = {}
    /\ TruncUnused
    /\ ServerUnused

ReceiveAny == \E q \in ImplQueries : ResolveImpl(q)

NextImpl ==
    \/ ReceiveAny
    \/ ResolveQueryStep
    \/ ResolveQueryReturn
    \/ Respond

SpecImpl == InitImpl /\ [][NextImpl]_vars

\* resolve_impl has built a response for the query at hand.
Built == pc \in {"resolving", "done"}

NoRecords(m) == m.answers = <<>> /\ m.authorities = <<>> /\ m.additionals = <<>>

\* C6: every response resolve_impl builds, whatever its RCODE, has the ID of the
\* query, QR = Response, the opcode and the RD flag of the query, AA set, RA
\* clear, and the questions of the query in their order.
ResponseEchoesQuery ==
    Built =>
        /\ response.id = query.id
        /\ response.packet_type = "Response"
        /\ response.opcode = query.opcode
        /\ response.recursion_desired = query.recursion_desired
        /\ response.authoritative_answer = TRUE
        /\ response.recursion_available = FALSE
        /\ response.questions = query.questions

\* A Status query of two questions with RD clear and ID 7 was answered NotImpl.
ResponseEchoesQueryWitness ==
    /\ pc = "done"
    /\ query.id = 7
    /\ query.opcode = "Status"
    /\ ~query.recursion_desired
    /\ Len(query.questions) = 2
    /\ response.response_code = NotImplemented
    /\ response.id = 7
    /\ response.questions = query.questions

\* C7: a query carrying EDNS with a version above 0 is answered at once: the
\* response has EDNS version 0 and RCODE 16, no option was handled (the response
\* has no option and the keepalive of the connection is as before), and no
\* answer, authority or additional record is added.
BadVersionReturnsAtOnce ==
    [][ (pc = "idle" /\ pc' # "idle" /\ query'.edns_version > 0)
        => /\ pc' = "done"
           /\ response'.edns_version = 0
           /\ response'.response_code = BadSignature
           /\ response'.options = <<>>
           /\ NoRecords(response')
           /\ conn' = conn ]_vars

\* A version-1 query with a cookie and a keepalive timeout was answered with
\* RCODE 16, the keepalive of the connection untouched.
BadVersionReturnsAtOnceWitness ==
    /\ pc = "done"
    /\ query.edns_version = 1
    /\ query.opcode = "Query"
    /\ query.options = << CookieOpt("c1", NoServerCookie), KeepaliveOpt(600) >>
    /\ query.questions # <<>>
    /\ response.response_code = BadSignature
    /\ response.edns_version = 0
    /\ response.options = <<>>
    /\ conn.keepalive = StreamKeepalive

\* C8 as stated: every query whose opcode is not Query is answered NotImpl
\* without records, whatever options it carries.
NotImplWhateverOptions ==
    (pc = "done" /\ query.opcode # "Query") =>
        /\ response.response_code = NotImplemented
        /\ NoRecords(response)

\* The query carries a COOKIE option that the cookie handler rejects.
CarriesRejectedCookie ==
    /\ config.cookie_enabled
    /\ \E i \in 1..Len(query.options) :
           /\ query.options[i].code = "Cookie"
           /\ ~CookieValidate(query.options[i], config, conn, now)

\* C8, amended: every query whose opcode is not Query gets no answer, authority
\* or additional record, and RCODE NotImpl unless it is answered early: RCODE 16
\* when its EDNS version is above 0, BadCookie when a COOKIE option it carries
\* fails validation.
NotImplUnlessAnsweredEarly ==
    (pc = "done" /\ query.opcode # "Query") =>
        /\ NoRecords(response)
        /\ response.response_code =
               IF query.edns_version > 0 THEN BadSignature
               ELSE IF query.edns_version = 0 /\ CarriesRejectedCookie THEN BadCookie
               ELSE NotImplemented

\* A Status query with a keepalive and an NSID option was answered NotImpl after
\* both options were handled.
NotImplUnlessAnsweredEarlyWitness ==
    /\ pc = "done"
    /\ query.opcode = "Status"
    /\ query.edns_version = 0
    /\ query.options = << KeepaliveOpt(600), NsidOpt(0) >>
    /\ query.questions # <<>>
    /\ response.response_code = NotImplemented
    /\ Len(response.options) >= 1
    /\ NoRecords(response)

\* The positions of the options of a kind in a sequence of options
Positions(options, code) == {i \in 1..Len(options) : options[i].code = code}

\* The handler of the option at position i runs: the query has EDNS version 0
\* and no COOKIE option before it is rejected.
HandlerRuns(q, i) ==
    /\ q.edns_version = 0
    /\ \A j \in 1..(i - 1) :
           (q.options[j].code = "Cookie" /\ config.cookie_enabled)
               => CookieValidate(q.options[j], config, conn, now)

\* C13: when the handler of the one tcp-keepalive option of a query runs, the
\* keepalive of the connection becomes the timeout of the option (in units of
\* 100 ms) if it carries one and is unchanged if it carries none, and the
\* response gets one tcp-keepalive option whose value is the keepalive of the
\* connection after that.
KeepaliveFollowsOption ==
    [][ (pc = "idle" /\ pc' # "idle")
        => \A i \in Positions(query'.options, "TcpKeepalive") :
               (Positions(query'.options, "TcpKeepalive") = {i} /\ HandlerRuns(query', i))
               => /\ conn'.keepalive = IF query'.options[i].timeout # NoTimeout
                                       THEN query'.options[i].timeout * 100
                                       ELSE conn.keepalive
                  /\ conn'.addr = conn.addr
                  /\ \E j \in Positions(response'.options, "TcpKeepalive") :
                         /\ Positions(response'.options, "TcpKeepalive") = {j}
                         /\ response'.options[j].timeout * 100 = conn'.keepalive ]_vars

\* A query with a tcp-keepalive option without a timeout arrived on a
\* connection whose keepalive an earlier query had set to 60 s: the keepalive is
\* still 60 s and the response carries it.
KeepaliveFollowsOptionWitness ==
    /\ pc = "done"
    /\ query.edns_version = 0
    /\ query.options = << KeepaliveOpt(NoTimeout) >>
    /\ conn.keepalive = 60000
    /\ response.options = << KeepaliveOpt(600) >>

\* C17: a Padding option of a query whose handler runs is echoed: the response
\* carries a Padding option with the same bytes.
PaddingEchoed ==
    Built =>
        \A i \in Positions(query.options, "Padding") :
            HandlerRuns(query, i)
                => \E j \in Positions(response.options, "Padding") :
                       response.options[j] = query.options[i]

----------------------------------------------------------------------------
(* Cookies over time *)

\* The clock readings a run may pass through lie within MaxElapsed seconds of
\* its first reading.
MaxElapsed == 600

Epoch == U32Of(100000)

TickSteps == {300, 301}

Addrs == {"a1", "a2"}

\* The distances, in seconds modulo 2^32, between the clock and the timestamp of
\* a presented cookie: around both ends of the window, and half the range away.
TimestampOffsets ==
    { U32Of(0), U32Of(300), U32Of(301),
      WrappingSub(U32Of(0), U32Of(3599)),
      WrappingSub(U32Of(0), U32Of(3600)),
      WrappingSub(U32Of(0), U32Of(3601)),
      WrappingSub(ComparisonThreshold, U32Of(1000)),
      ComparisonThreshold }

\* The server cookies a client may present for its client cookie: none, one of
\* a wrong length, the one it was last sent, one of another version, one with
\* a MAC under another secret, and those a server holding the secret issued
\* for this client and address when its clock read the timestamp.
PresentedServerCookies(client, addr) ==
    { NoServerCookie, [len |-> 8] }
    \cup { j.opt.server : j \in jar }
    \cup { ServerCookie(2, 0, now, Mac(config.cookie_secret, client, 2, 0, now, addr)),
           ServerCookie(1, 0, now, Mac("s2", client, 1, 0, now, addr)) }
    \cup { ServerCookie(1, 0, WrappingAdd(now, off),
                        Mac(config.cookie_secret, client, 1, 0, WrappingAdd(now, off), addr)) :
           off \in TimestampOffsets }

CookieQueries ==
    { QueryMessage(4660, "Query", TRUE, << Question(WwwEx, In, TypeA) >>, 0,
                   << CookieOpt("c1", server) >>) :
      server \in PresentedServerCookies("c1", conn.addr) }

CookieConfigs ==
    { [DefaultConfig EXCEPT !.cookie_strategy = strategy] :
        strategy \in {"Off", "Validate", "Enforce"} }

InitCookie ==
    /\ zone = ZoneRecords
    /\ config \in CookieConfigs
    /\ now = Epoch
    /\ conn = NewConnection("a1")
    /\ query = NewMessage(0)
    /\ response = NewMessage(0)
    /\ queue = <<>>
    /\ resolved = {}
    /\ pc = "idle"
    /\ jar = {}
    /\ TruncUnused
    /\ ServerUnused

ReceiveCookie == \E q \in CookieQueries : ResolveImpl(q)

\* Time passes between two queries.
Tick ==
    /\ pc = "idle"
    /\ U32Less(WrappingSub(now, Epoch), U32Of(MaxElapsed))
    /\ \E d \in TickSteps : now' = WrappingAdd(now, U32Of(d))
    /\ UNCHANGED <<zone, config, conn, query, response, queue, resolved, pc, jar>>
    /\ UNCHANGED truncVars
    /\ UNCHANGED serverVars

\* The next query arrives over a connection from another address.
Reconnect ==
    /\ pc = "idle"
    /\ \E a \in Addrs \ {conn.addr} : conn' = NewConnection(a)
    /\ UNCHANGED <<zone, config, now, query, response, queue, resolved, pc, jar>>
    /\ UNCHANGED truncVars
    /\ UNCHANGED serverVars

NextCookie ==
    \/ ReceiveCookie
    \/ ResolveQueryStep
    \/ ResolveQueryReturn
    \/ Respond
    \/ Tick
    \/ Reconnect

SpecCookie == InitCookie /\ [][NextCookie]_vars

\* The COOKIE option of the query at hand.
Presented == query.options[1]

\* The cookie the client presents is the one it was last sent, it was sent to
\* the address the query comes from, and at most 300 seconds have passed.
EchoesReturnedCookie ==
    /\ [addr |-> conn.addr, opt |-> Presented] \in jar
    /\ LET age == WrappingSub(now, Presented.server.ts)
       IN  age[1] = 0 /\ age[2] <= 300

\* C9: with cookies enabled under strategy Enforce, a query whose COOKIE option
\* has only a client cookie is answered BadCookie with one COOKIE option, the
\* client cookie and a 16-byte server cookie stamped with the current time, and
\* with no record, the worklist never started; a later query from the same
\* address echoing the returned cookie within 300 seconds is resolved, never
\* BadCookie, and ends with RCODE NoError and its answer.
CookieRoundTrip ==
    (Built /\ config.cookie_strategy = "Enforce" /\ query.options # <<>>) =>
        /\ Presented.server = NoServerCookie
           => /\ pc = "done"
              /\ response.response_code = BadCookie
              /\ Len(response.options) = 1
              /\ response.options[1].code = "Cookie"
              /\ response.options[1].client = Presented.client
              /\ response.options[1].server.len = 16
              /\ response.options[1].server.ts = now
              /\ NoRecords(response)
              /\ resolved = {}
        /\ EchoesReturnedCookie
           => /\ response.response_code = NoError
              /\ pc = "done" => /\ response.answers # <<>>
                                /\ response.answers[1] = Rec(WwwEx, In, TypeCname, HostEx)

\* Under Enforce the cookie returned 300 seconds ago to this address came back
\* and the query was resolved.
CookieRoundTripWitness ==
    /\ pc = "done"
    /\ config.cookie_strategy = "Enforce"
    /\ query.options # <<>>
    /\ EchoesReturnedCookie
    /\ Presented.server.ts = Epoch
    /\ now = WrappingAdd(Epoch, U32Of(300))
    /\ response.response_code = NoError
    /\ response.answers # <<>>

\* ts lies in [t - 3600, t + 300] under serial comparison.
InWindow(ts, t) ==
    /\ SerialGe(ts, WrappingSub(t, U32Of(3600)))
    /\ SerialGe(WrappingAdd(t, U32Of(300)), ts)

\* The query presents a 16-byte version-1 server cookie with the MAC validate
\* computes for it.
PresentsGenuineCookie ==
    /\ query.options # <<>>
    /\ Presented.server.len = 16
    /\ Presented.server.version = 1
    /\ Presented.server.mac = Mac(config.cookie_secret, Presented.client, 1,
                                  Presented.server.reserved, Presented.server.ts, conn.addr)

\* C10: under strategy Validate or Enforce a 16-byte version-1 server cookie
\* with a correct MAC is accepted (the query is not answered BadCookie) if and
\* only if its timestamp lies in [now - 3600, now + 300] under serial comparison.
AcceptedIffInWindow ==
    (Built /\ config.cookie_strategy \in {"Validate", "Enforce"} /\ PresentsGenuineCookie)
        => (response.response_code # BadCookie <=> InWindow(Presented.server.ts, now))

----------------------------------------------------------------------------
(* Truncation of arbitrary messages *)

TruncQuestions == {Question(Ex, In, TypeMx)}
TruncAnswers == {Rec(MailEx, In, TypeA, Root)}
TruncAuthorities == {Rec(Ex, In, TypeSoa, Ex)}
TruncAdditionals == {Rec(MailEx, In, TypeA, Root)}
TruncOptions == {KeepaliveOpt(3000)}

TruncMessages ==
    { [NewMessage(1) EXCEPT
          !.truncated = tc, !.edns_version = v, !.options = o,
          !.questions = q, !.answers = an, !.authorities = au, !.additionals = ad] :
      tc \in BOOLEAN, v \in {NoEdns, 0},
      o \in SeqsUpTo(TruncOptions, MaxOptions),
      q \in SeqsUpTo(TruncQuestions, MaxSectionLen),
      an \in SeqsUpTo(TruncAnswers, MaxSectionLen),
      au \in SeqsUpTo(TruncAuthorities, MaxSectionLen),
      ad \in SeqsUpTo(TruncAdditionals, MaxSectionLen) }

\* A message without an OPT record carries no options.
TruncInputs == {m \in TruncMessages : m.edns_version = NoEdns => m.options = <<>>}

ResolverUnused ==
    /\ zone = {}
    /\ config = DefaultConfig
    /\ now = U32Of(0)
    /\ conn = NewConnection("a1")
    /\ query = NewMessage(0)
    /\ response = NewMessage(0)
    /\ queue = <<>>
    /\ resolved = {}
    /\ pc = "idle"
    /\ jar = {}

InitTrunc ==
    /\ msg \in TruncInputs
    /\ limit \in 0..MaxLimit
    /\ orig = msg
    /\ tpc = "ready"
    /\ ResolverUnused
    /\ ServerUnused

\* msg.truncate_to(limit)
Truncate ==
    /\ tpc = "ready"
    /\ msg' = TruncateTo(msg, limit)
    /\ tpc' = "truncated"
    /\ UNCHANGED <<limit, orig>>
    /\ UNCHANGED resolverVars
    /\ UNCHANGED serverVars

NextTrunc == Truncate

SpecTrunc == InitTrunc /\ [][NextTrunc]_vars

\* What truncate_to removed from the message.
Removed ==
    \/ Len(msg.questions) < Len(orig.questions)
    \/ Len(msg.answers) < Len(orig.answers)
    \/ Len(msg.authorities) < Len(orig.authorities)
    \/ Len(msg.additionals) < Len(orig.additionals)
    \/ (orig.edns_version # NoEdns /\ msg.edns_version = NoEdns)

\* C1 as stated: for every message and every limit N, the encoding of the
\* message after truncate_to(N) is at most N bytes long, limits below the
\* 12-byte header included.
TruncateFitsEveryLimit ==
    tpc = "truncated" => EncodedLen(msg) <= limit

\* C1 as amended: for every limit N >= 12 the encoding after truncate_to(N) is at
\* most N bytes long; for N < 12 the result is the bare header, 12 bytes.
TruncateFitsFromHeaderUp ==
    tpc = "truncated" =>
        /\ limit >= 12 => EncodedLen(msg) <= limit
        /\ limit < 12 => EncodedLen(msg) = 12

\* A message with EDNS options that did not fit a limit of at least 12 was cut.
TruncateFitsWitness ==
    /\ tpc = "truncated"
    /\ limit >= 12
    /\ orig.edns_version # NoEdns /\ orig.options # <<>>
    /\ msg.edns_version # NoEdns
    /\ EncodedLen(orig) > limit
    /\ Len(msg.answers) < Len(orig.answers)

\* C2: when TC is clear before the call, truncate_to(N) leaves TC set iff it
\* removed a question, a record or the OPT record; what is kept of each section
\* is a prefix of it; when the whole message fits nothing changes.
TruncatedIffRemoved ==
    (tpc = "truncated" /\ ~orig.truncated) =>
        /\ msg.truncated <=> Removed
        /\ msg.questions = SubSeq(orig.questions, 1, Len(msg.questions))
        /\ msg.answers = SubSeq(orig.answers, 1, Len(msg.answers))
        /\ msg.authorities = SubSeq(orig.authorities, 1, Len(msg.authorities))
        /\ msg.additionals = SubSeq(orig.additionals, 1, Len(msg.additionals))
        /\ MessageSize(orig) <= limit => msg = orig

\* The OPT record alone was dropped, and TC set, while every section was kept.
TruncatedIffRemovedWitness ==
    /\ tpc = "truncated"
    /\ ~orig.truncated
    /\ orig.edns_version # NoEdns /\ msg.edns_version = NoEdns
    /\ msg.truncated
    /\ msg.questions = orig.questions /\ orig.questions # <<>>
    /\ msg.additionals = orig.additionals

----------------------------------------------------------------------------
(* The UDP server *)

Min(a, b) == IF a <= b THEN a ELSE b
Max(a, b) == IF a >= b THEN a ELSE b

\* A query without an OPT record
NoOpt == [present |-> FALSE]

\* The OPT record of a query: the payload size it advertises, its version and
\* its options.
OptOf(advertised, version, options) ==
    [present |-> TRUE, advertised |-> advertised, version |-> version, options |-> options]

\* The bytes of a well-formed query, by what they encode.
QueryBody(opcode, rd, questions, opt) ==
    [valid |-> TRUE, opcode |-> opcode, rd |-> rd, questions |-> questions, opt |-> opt]

\* Bytes that are no message
Garbage == [valid |-> FALSE]

\* A datagram or frame: where it came from, its length, its first two bytes
\* (0 where the input has none and the buffer is zeroed) and the rest.
Packet(transport, addr, len, b0, b1, body) ==
    [transport |-> transport, addr |-> addr, len |-> len, b0 |-> b0, b1 |-> b1, body |-> body]

\* from_wire::<Message> succeeds.
Decodes(p) == p.len >= 12 /\ p.body.valid

\* u16::from_be_bytes of the first two bytes
PacketId(p) == p.b0 * 256 + p.b1

\* A decode taking the advertised payload size as it is
FromWireUnclamped(p) ==
    [NewMessage(PacketId(p)) EXCEPT
        !.opcode = p.body.opcode,
        !.recursion_desired = p.body.rd,
        !.questions = p.body.questions,
        !.udp_payload_size = IF p.body.opt.present THEN p.body.opt.advertised ELSE 512,
        !.edns_version = IF p.body.opt.present THEN p.body.opt.version ELSE NoEdns,
        !.options = IF p.body.opt.present THEN p.body.opt.options ELSE <<>>]

\* WireDecode for Message: the message from_wire returns.
FromWire(p) ==
    [NewMessage(PacketId(p)) EXCEPT
        !.opcode = p.body.opcode,
        !.recursion_desired = p.body.rd,
        !.questions = p.body.questions,
        !.udp_payload_size = IF p.body.opt.present THEN Max(p.body.opt.advertised, 512) ELSE 512,
        !.edns_version = IF p.body.opt.present THEN p.body.opt.version ELSE NoEdns,
        !.options = IF p.body.opt.present THEN p.body.opt.options ELSE <<>>]

\* The bytes of a query on the wire.
QueryPacket(transport, addr, id, body) ==
    LET p == Packet(transport, addr, 12, id \div 256, id % 256, body)
    IN  [p EXCEPT !.len = EncodedLen(FromWire(p))]

\* The response the server builds for an input that does not decode.
FormatError == 1

\* A FormatError response that does not take the ID of the input
FormatErrorResponseZeroId(p) ==
    [NewMessage(0) EXCEPT !.packet_type = "Response", !.response_code = FormatError]

FormatErrorResponse(p) ==
    [NewMessage(PacketId(p)) EXCEPT !.packet_type = "Response", !.response_code = FormatError]

\* The ConnectionContext made for each datagram: keepalive Duration::ZERO
UdpConnection(addr) == [addr |-> addr, keepalive |-> 0]

\* The task of UdpDnsServer::run takes a datagram from the channel, decodes it
\* and resolves it up to the worklist loop, or builds the FormatError response.
UdpReceive(p) ==
    /\ pc = "idle"
    /\ packet' = p
    /\ IF Decodes(p)
       THEN LET q == FromWire(p)
                pr == Prelude(q, UdpConnection(p.addr), config, now)
            IN  /\ query' = q
                /\ response' = pr.response
                /\ conn' = pr.conn
                /\ pc' = pr.next
                /\ queue' = IF pr.next = "resolving"
                            THEN [i \in 1..Len(q.questions) |-> Item(q.questions[i], "Question")]
                            ELSE <<>>
       ELSE /\ query' = NewMessage(0)
            /\ response' = FormatErrorResponse(p)
            /\ conn' = UdpConnection(p.addr)
            /\ pc' = "done"
            /\ queue' = <<>>
    /\ resolved' = {}
    /\ msg' = NewMessage(0)
    /\ limit' = 0
    /\ orig' = NewMessage(0)
    /\ tpc' = "ready"
    /\ UNCHANGED <<zone, config, now, jar, stream>>

\* The response is truncated to the smaller of the payload size of the query
\* and the configured maximum, encoded and sent.
UdpSend ==
    /\ pc = "done"
    /\ packet.transport = "udp"
    /\ LET payload_size == IF Decodes(packet) THEN query.udp_payload_size ELSE 512
           size == Min(payload_size, config.udp_max_payload_size)
       IN  /\ limit' = size
           /\ orig' = response
           /\ msg' = TruncateTo(response, size)
    /\ tpc' = "sent"
    /\ pc' = "idle"
    /\ query' = NewMessage(0)
    /\ response' = NewMessage(0)
    /\ queue' = <<>>
    /\ resolved' = {}
    /\ UNCHANGED <<zone, config, now, conn, jar, packet, stream>>

UdpQuestions ==
    { << Question(BigEx, In, TypeTxt) >>, << Question(WwwEx, In, TypeA) >>,
      << Question(Ex, In, TypeMx), Question(BigEx, In, TypeTxt) >> }

AdvertisedSizes == {100, 512, 600, 1232}

UdpOpts ==
    {NoOpt} \cup { OptOf(a, 0, options) : a \in AdvertisedSizes,
                                         options \in {<<>>, << NsidOpt(0) >>} }

\* The datagrams that arrive: queries, and inputs that do not decode, down to
\* the empty datagram.
UdpPackets ==
    { QueryPacket("udp", "a1", 4660, QueryBody("Query", TRUE, qs, opt)) :
        qs \in UdpQuestions, opt \in UdpOpts }
    \cup { Packet("udp", "a1", 0, 0, 0, Garbage), Packet("udp", "a1", 1, 18, 0, Garbage),
           Packet("udp", "a1", 2, 18, 52, Garbage), Packet("udp", "a1", 11, 18, 52, Garbage),
           Packet("udp", "a1", 40, 18, 52, Garbage) }

MaxPayloadSizes == {8, 100, 512, 1232}

UdpConfigs ==
    { [DefaultConfig EXCEPT !.udp_max_payload_size = m] : m \in MaxPayloadSizes }

InitUdp ==
    /\ zone = ZoneRecords
    /\ config \in UdpConfigs
    /\ now = Epoch
    /\ conn = UdpConnection("a1")
    /\ query = NewMessage(0)
    /\ response = NewMessage(0)
    /\ queue = <<>>
    /\ resolved = {}
    /\ pc = "idle"
    /\ jar = {}
    /\ TruncUnused
    /\ ServerUnused

UdpReceiveAny == \E p \in UdpPackets : UdpReceive(p)

NextUdp ==
    \/ UdpReceiveAny
    \/ ResolveQueryStep
    \/ ResolveQueryReturn
    \/ UdpSend

SpecUdp == InitUdp /\ [][NextUdp]_vars

\* The payload size a datagram advertises: 512 without an OPT record, and at
\* least 512 with one.
AdvertisedPayload(p) ==
    IF p.body.opt.present
    THEN (IF p.body.opt.advertised < 512 THEN 512 ELSE p.body.opt.advertised)
    ELSE 512

\* A response to a datagram that decoded has been sent.
SentForQuery == tpc = "sent" /\ packet.transport = "udp" /\ Decodes(packet)

\* C11 as stated: every response to a datagram that decodes is truncated to
\* min(P, M), the datagram sent is at most min(P, M) bytes long, and a response
\* that lost records has TC set.
UdpResponseFitsEveryMaximum ==
    SentForQuery =>
        /\ limit = Min(AdvertisedPayload(packet), config.udp_max_payload_size)
        /\ EncodedLen(msg) <= Min(AdvertisedPayload(packet), config.udp_max_payload_size)
        /\ Removed => msg.truncated

\* C11, amended: every response to a datagram that decodes is truncated to
\* min(P, M), and a response that lost records has TC set; the datagram sent is
\* at most min(P, M) bytes long when the configured maximum M is at least the
\* 12 bytes of a header, and is the bare 12-byte header when M is below 12.
UdpResponseFitsFromHeaderUp ==
    SentForQuery =>
        /\ limit = Min(AdvertisedPayload(packet), config.udp_max_payload_size)
        /\ config.udp_max_payload_size >= 12
           => EncodedLen(msg) <= Min(AdvertisedPayload(packet), config.udp_max_payload_size)
        /\ config.udp_max_payload_size < 12 => EncodedLen(msg) = 12
        /\ Removed => msg.truncated

\* A query without EDNS for the TXT set was answered with a response cut to
\* 512 bytes, the answer removed and TC set, under a maximum of 1232.
UdpResponseFitsWitness ==
    /\ SentForQuery
    /\ ~packet.body.opt.present
    /\ config.udp_max_payload_size = 1232
    /\ limit = 512
    /\ orig.answers # <<>> /\ msg.answers = <<>>
    /\ msg.truncated
    /\ EncodedLen(orig) > 512 /\ EncodedLen(msg) <= 512

----------------------------------------------------------------------------
(* The TCP server: the task of one stream connection *)

\* The number of frames read on the connection is capped.
MaxFrames == 2

\* The idle times, in milliseconds, at which the task is looked at while the
\* client is silent
WaitMarks == {300, 600, 900, 300000, 300300}

\* What the task records of a frame it read: the length, whether it decodes,
\* and the ID in its first two bytes (-1 when it has fewer).
FrameRead(p) ==
    [len |-> p.len, decodes |-> Decodes(p), id |-> IF p.len >= 2 THEN PacketId(p) ELSE -1]

\* listener.accept returns and the task of the connection is spawned with its
\* ConnectionContext.
Accept ==
    /\ pc = "idle"
    /\ stream.state = "none"
    /\ \E a \in Addrs : conn' = NewConnection(a)
    /\ stream' = [state |-> "waiting", waited |-> 0, reads |-> <<>>, writes |-> <<>>]
    /\ UNCHANGED <<zone, config, now, query, response, queue, resolved, pc, jar, packet>>
    /\ UNCHANGED truncVars

\* Time passes while the task waits for bytes of the client. The wait for the
\* length prefix runs under timeout(keepalive), which ends it at the keepalive;
\* the wait for the rest of the frame has no timeout.
Wait ==
    /\ stream.state \in {"waiting", "reading"}
    /\ \E w \in WaitMarks :
           /\ w > stream.waited
           /\ IF stream.state = "waiting" THEN w <= conn.keepalive ELSE packet.len > 0
           /\ stream' = [stream EXCEPT !.waited = w]
    /\ UNCHANGED <<packet>>
    /\ UNCHANGED resolverVars
    /\ UNCHANGED truncVars

\* timeout(keepalive, stream.read_u16()) elapses: the task returns.
KeepaliveTimeout ==
    /\ stream.state = "waiting"
    /\ stream.waited >= conn.keepalive
    /\ stream' = [stream EXCEPT !.state = "closed"]
    /\ UNCHANGED <<packet>>
    /\ UNCHANGED resolverVars
    /\ UNCHANGED truncVars

\* A read fails or meets the end of the stream: the task returns.
ReadFails ==
    /\ stream.state \in {"waiting", "reading"}
    /\ stream' = [stream EXCEPT !.state = "closed"]
    /\ UNCHANGED <<packet>>
    /\ UNCHANGED resolverVars
    /\ UNCHANGED truncVars

\* read_u16 returns the length prefix of the next frame in time.
ReadLength(p) ==
    /\ stream.state = "waiting"
    /\ stream.waited <= conn.keepalive
    /\ Len(stream.reads) < MaxFrames
    /\ packet' = p
    /\ stream' = [stream EXCEPT !.state = "reading", !.waited = 0]
    /\ UNCHANGED resolverVars
    /\ UNCHANGED truncVars

\* read_exact returns the frame: it is decoded and resolved up to the worklist
\* loop, or the FormatError response is built from its first two bytes, which
\* panics when the frame has fewer.
ReadFrame ==
    /\ stream.state = "reading"
    /\ IF Decodes(packet)
       THEN LET q == FromWire(packet)
                pr == Prelude(q, conn, config, now)
            IN  /\ query' = q
                /\ response' = pr.response
                /\ conn' = pr.conn
                /\ pc' = pr.next
                /\ queue' = IF pr.next = "resolving"
                            THEN [i \in 1..Len(q.questions) |-> Item(q.questions[i], "Question")]
                            ELSE <<>>
                /\ stream' = [stream EXCEPT !.state = "handling",
                                            !.reads = Append(@, FrameRead(packet))]
       ELSE IF packet.len >= 2
       THEN /\ response' = FormatErrorResponse(packet)
            /\ pc' = "done"
            /\ stream' = [stream EXCEPT !.state = "handling",
                                        !.reads = Append(@, FrameRead(packet))]
            /\ UNCHANGED <<query, conn, queue>>
       ELSE /\ stream' = [stream EXCEPT !.state = "panicked",
                                        !.reads = Append(@, FrameRead(packet))]
            /\ UNCHANGED <<query, response, conn, pc, queue>>
    /\ resolved' = {}
    /\ UNCHANGED <<zone, config, now, jar, packet>>
    /\ UNCHANGED truncVars

\* What the task records of a response it wrote.
FrameWritten(m) ==
    [id |-> m.id, packet_type |-> m.packet_type, response_code |-> m.response_code,
     length |-> EncodedLen(m) % 65536, bytes |-> EncodedLen(m)]

\* The response is encoded and written behind its length; the loop goes on to
\* the next read.
TcpWrite ==
    /\ pc = "done"
    /\ stream.state = "handling"
    /\ stream' = [stream EXCEPT !.state = "waiting", !.waited = 0,
                                !.writes = Append(@, FrameWritten(response))]
    /\ pc' = "idle"
    /\ query' = NewMessage(0)
    /\ response' = NewMessage(0)
    /\ queue' = <<>>
    /\ resolved' = {}
    /\ packet' = NoPacket
    /\ UNCHANGED <<zone, config, now, conn, jar>>
    /\ UNCHANGED truncVars

\* A write fails: the task returns.
WriteFails ==
    /\ pc = "done"
    /\ stream.state = "handling"
    /\ stream' = [stream EXCEPT !.state = "closed"]
    /\ pc' = "idle"
    /\ query' = NewMessage(0)
    /\ response' = NewMessage(0)
    /\ queue' = <<>>
    /\ resolved' = {}
    /\ packet' = NoPacket
    /\ UNCHANGED <<zone, config, now, conn, jar>>
    /\ UNCHANGED truncVars

\* The frames a client sends: queries with and without a tcp-keepalive option,
\* and frames that do not decode, down to the declared lengths 1 and 0.
TcpFrames ==
    { QueryPacket("tcp", "a1", id, QueryBody("Query", TRUE, << Question(WwwEx, In, TypeA) >>, opt)) :
        id \in {4660, 7},
        opt \in { NoOpt, OptOf(1232, 0, << KeepaliveOpt(6) >>),
                  OptOf(1232, 0, << KeepaliveOpt(NoTimeout) >>) } }
    \cup { QueryPacket("tcp", "a1", 7,
                       QueryBody("Query", TRUE, << Question(HugeEx, In, TypeTxt) >>, NoOpt)) }
    \cup { Packet("tcp", "a1", 0, 0, 0, Garbage), Packet("tcp", "a1", 1, 18, 0, Garbage),
           Packet("tcp", "a1", 2, 18, 52, Garbage), Packet("tcp", "a1", 40, 0, 9, Garbage) }

\* The keepalive values of the configuration, in milliseconds
ConfiguredKeepalives == {300000, 60000}

TcpConfigs == { [DefaultConfig EXCEPT !.keepalive = k] : k \in ConfiguredKeepalives }

InitTcp ==
    /\ zone = ZoneRecords
    /\ config \in TcpConfigs
    /\ now = Epoch
    /\ conn = NewConnection("a1")
    /\ query = NewMessage(0)
    /\ response = NewMessage(0)
    /\ queue = <<>>
    /\ resolved = {}
    /\ pc = "idle"
    /\ jar = {}
    /\ TruncUnused
    /\ ServerUnused

ReadAnyLength == \E p \in TcpFrames : ReadLength(p)

NextTcp ==
    \/ Accept
    \/ Wait
    \/ KeepaliveTimeout
    \/ ReadFails
    \/ ReadAnyLength
    \/ ReadFrame
    \/ ResolveQueryStep
    \/ ResolveQueryReturn
    \/ TcpWrite
    \/ WriteFails

SpecTcp == InitTcp /\ [][NextTcp]_vars

\* The response sent for a datagram that does not decode is a FormatError
\* response with the ID in the first two bytes of the buffer.
MalformedDatagramAnswered ==
    (tpc = "sent" /\ packet.transport = "udp" /\ ~Decodes(packet)) =>
        /\ msg.response_code = FormatError
        /\ msg.packet_type = "Response"
        /\ msg.id = PacketId(packet)

\* The response written for a frame that does not decode is a FormatError
\* response with the ID in the first two bytes of the frame.
MalformedFrameAnswered ==
    \A k \in 1..Len(stream.writes) :
        ~stream.reads[k].decodes =>
            /\ stream.writes[k].response_code = FormatError
            /\ stream.writes[k].packet_type = "Response"
            /\ stream.writes[k].id = stream.reads[k].id

\* C12: for every input that fails to decode, on either transport and of any
\* length, frames of declared length 0 or 1 included, the server does not panic
\* and answers FormatError with QR = Response and the ID in the first two bytes
\* of the input, and the read loop of a stream connection goes on.
MalformedInputAnswered ==
    /\ stream.state # "panicked"
    /\ MalformedDatagramAnswered
    /\ MalformedFrameAnswered

\* The task is waiting for bytes of the client.
AwaitsClient == stream.state \in {"waiting", "reading"}

\* C14: on a stream connection the server never waits for bytes of the client
\* for longer than the keepalive of the connection in force: before a length
\* prefix or in the middle of a frame, a wait that reaches the keepalive ends
\* with the connection closed.
IdleReadsBounded ==
    AwaitsClient => stream.waited <= conn.keepalive

\* C15: a newly accepted stream connection starts with the keepalive of the
\* server configuration.
AcceptedWithConfiguredKeepalive ==
    (stream.state = "waiting" /\ stream.reads = <<>>) => conn.keepalive = config.keepalive

\* C16: within one stream connection the k-th response written answers the
\* k-th frame read and has its ID, one response is written per frame that
\* carries an ID, and the next frame is awaited only after the response to the
\* previous one is written: the frames read are as many as the responses
\* written while a frame is awaited, and one more while a frame is handled or
\* after the task ended on it.
ResponsesFollowQueries ==
    /\ Len(stream.writes) <= Len(stream.reads)
    /\ Len(stream.reads) <= Len(stream.writes) + 1
    /\ \A k \in 1..Len(stream.writes) : stream.writes[k].id = stream.reads[k].id
    /\ AwaitsClient => Len(stream.reads) = Len(stream.writes)
    /\ stream.state = "handling" => Len(stream.reads) = Len(stream.writes) + 1
    /\ (Len(stream.reads) = Len(stream.writes) + 1 /\ stream.state = "handling")
           => /\ pc \in {"resolving", "done"}
              /\ response.id = stream.reads[Len(stream.reads)].id

\* Two frames with different IDs were read and answered in their order.
ResponsesFollowQueriesWitness ==
    /\ Len(stream.writes) = 2
    /\ stream.reads[1].id = 7 /\ stream.reads[2].id = 4660
    /\ stream.writes[1].id = 7 /\ stream.writes[2].id = 4660
    /\ stream.state = "waiting"

----------------------------------------------------------------------------
(* Messages on the wire: the counts and the OPT record *)

\* The OPT record Message::encode synthesizes: root owner, the payload size in
\* the class field, the version in the TTL field, the options as its data.
OptRecordOf(m) ==
    [name |-> Root, rtype |-> "OPT", udp_payload_size |-> m.udp_payload_size,
     version |-> m.edns_version, options |-> m.options]

\* What Message::encode writes: the ID, the four counts, and the items of the
\* sections one after another, the OPT record between the authorities and the
\* additionals.
EncodeMessage(m) ==
    [id |-> m.id,
     truncated |-> m.truncated,
     question_count |-> Len(m.questions),
     answer_count |-> Len(m.answers),
     authority_count |-> Len(m.authorities),
     additional_count |-> (IF m.edns_version # NoEdns THEN 1 ELSE 0) + Len(m.additionals),
     items |-> m.questions \o m.answers \o m.authorities
               \o (IF m.edns_version # NoEdns THEN << OptRecordOf(m) >> ELSE <<>>)
               \o m.additionals]

\* Vec::swap_remove on a vector left in place
SwapKept(s, i) == s

\* Vec::swap_remove: the element at i is replaced by the last one.
SwapRemove(s, i) ==
    [j \in 1..(Len(s) - 1) |-> IF j = i THEN s[Len(s)] ELSE s[j]]

\* The additional section as decode reads it.
WireAdditionals(w) ==
    SubSeq(w.items,
           w.question_count + w.answer_count + w.authority_count + 1,
           w.question_count + w.answer_count + w.authority_count + w.additional_count)

\* Where the additional section holds OPT records.
OptPositions(records) == {i \in 1..Len(records) : records[i].rtype = "OPT"}

\* Message::decode succeeds: as many items as the counts say are there, and at
\* most one of the additional records is an OPT record.
WireDecodes(w) ==
    /\ w.question_count + w.answer_count + w.authority_count + w.additional_count <= Len(w.items)
    /\ Cardinality(OptPositions(WireAdditionals(w))) <= 1

\* Message::decode: the sections by their counts, the OPT record taken out of
\* the additionals and absorbed into the EDNS fields.
DecodeMessage(w) ==
    LET additionals == WireAdditionals(w)
        found == OptPositions(additionals)
        opt_index == CHOOSE i \in found : TRUE
        plain == [NewMessage(w.id) EXCEPT
                     !.truncated = w.truncated,
                     !.questions = SubSeq(w.items, 1, w.question_count),
                     !.answers = SubSeq(w.items, w.question_count + 1,
                                        w.question_count + w.answer_count),
                     !.authorities = SubSeq(w.items, w.question_count + w.answer_count + 1,
                                            w.question_count + w.answer_count + w.authority_count),
                     !.additionals = additionals]
    IN  IF found = {} THEN plain
        ELSE [plain EXCEPT
                 !.additionals = SwapRemove(additionals, opt_index),
                 !.udp_payload_size = Max(additionals[opt_index].udp_payload_size, 512),
                 !.edns_version = additionals[opt_index].version,
                 !.options = additionals[opt_index].options]

\* The OPT record of a wire moved from the front of the additional section to
\* its position k, as another encoder may place it.
OptMovedTo(w, k) ==
    LET first == w.question_count + w.answer_count + w.authority_count + 1
        opt == w.items[first]
        others == SubSeq(w.items, first + 1, Len(w.items))
    IN  [w EXCEPT !.items = SubSeq(w.items, 1, first - 1)
                            \o SubSeq(others, 1, k - 1) \o <<opt>>
                            \o SubSeq(others, k, Len(others))]

WireAdditionalPool == {Rec(MailEx, In, TypeA, Root), Rec(HostEx, In, TypeCname, MailEx)}

\* The messages encoded: every shape of sections, with and without EDNS.
WireInputs ==
    { [NewMessage(4660) EXCEPT
          !.edns_version = v, !.options = o, !.udp_payload_size = size,
          !.questions = q, !.answers = an, !.authorities = au, !.additionals = ad] :
      v \in {NoEdns, 0}, o \in SeqsUpTo(TruncOptions, 1), size \in {512, 1232},
      q \in SeqsUpTo(TruncQuestions, 1),
      an \in SeqsUpTo(TruncAnswers, MaxSectionLen),
      au \in SeqsUpTo(TruncAuthorities, 1),
      ad \in SeqsUpTo(WireAdditionalPool, MaxSectionLen) }

InitWire ==
    /\ msg \in {m \in WireInputs : m.edns_version = NoEdns => (m.options = <<>> /\ m.udp_payload_size = 512)}
    /\ orig = msg
    /\ limit = 0
    /\ tpc = "ready"
    /\ packet = NoPacket
    /\ stream = NoStream
    /\ ResolverUnused

\* to_wire(&msg)
Encode ==
    /\ tpc = "ready"
    /\ packet' = EncodeMessage(msg)
    /\ tpc' = "encoded"
    /\ UNCHANGED <<msg, limit, orig, stream>>
    /\ UNCHANGED resolverVars

\* A peer's encoding of the same message arrives with its OPT record at another
\* position of the additional section.
Reencoded ==
    /\ tpc = "encoded"
    /\ msg.edns_version # NoEdns
    /\ \E k \in 2..(Len(msg.additionals) + 1) : packet' = OptMovedTo(EncodeMessage(msg), k)
    /\ tpc' = "received"
    /\ UNCHANGED <<msg, limit, orig, stream>>
    /\ UNCHANGED resolverVars

\* from_wire::<Message>(..) of the bytes
Decode ==
    /\ tpc \in {"encoded", "received"}
    /\ WireDecodes(packet)
    /\ msg' = DecodeMessage(packet)
    /\ tpc' = "decoded"
    /\ UNCHANGED <<limit, orig, packet, stream>>
    /\ UNCHANGED resolverVars

NextWire ==
    \/ Encode
    \/ Reencoded
    \/ Decode

SpecWire == InitWire /\ [][NextWire]_vars

EdnsCount(m) == IF m.edns_version # NoEdns THEN 1 ELSE 0

\* C18: encoding writes ARCOUNT = the number of additional records + 1 when the
\* message has an EDNS version and the number of additional records when it has
\* none; decoding a message with one OPT record takes it out of the additional
\* section, wherever it stands, so that the decoded message has the additional
\* records and the EDNS version of the encoded one and encodes to the same
\* ARCOUNT.
ArcountCountsOpt ==
    /\ tpc \in {"encoded", "received"}
       => /\ packet.additional_count = Len(orig.additionals) + EdnsCount(orig)
          /\ WireDecodes(packet)
    /\ tpc = "decoded"
       => /\ Len(msg.additionals) = Len(orig.additionals)
          /\ OptPositions(msg.additionals) = {}
          /\ \A r \in WireAdditionalPool :
                 Cardinality({i \in 1..Len(msg.additionals) : msg.additionals[i] = r})
                     = Cardinality({i \in 1..Len(orig.additionals) : orig.additionals[i] = r})
          /\ msg.edns_version = orig.edns_version
          /\ EncodeMessage(msg).additional_count = packet.additional_count

\* A message with EDNS and two additional records was encoded with ARCOUNT 3
\* and decoded back to two additional records.
ArcountCountsOptWitness ==
    /\ tpc = "decoded"
    /\ orig.edns_version = 0
    /\ Len(orig.additionals) = 2
    /\ packet.additional_count = 3
    /\ Len(msg.additionals) = 2
    /\ msg.edns_version = 0

----------------------------------------------------------------------------
(* Names on the wire: labels and compression pointers *)

MaxBufferLen == 4

\* DomainName::COMPRESS is true, HostName::COMPRESS is false
CompressAny(name_type) == TRUE

Compress(name_type) == name_type = "DomainName"

\* WireRead::new(buffer) moved to a position, and the locals of Name::decode
\* before its loop. Positions count from 0 as in the code.
NewReader(name_type, buffer, start_at) ==
    [name_type |-> name_type, buffer |-> buffer, pos |-> start_at,
     seek_to_before_return |-> -1, visited_positions |-> <<>>, labels |-> <<>>,
     result |-> "none"]

\* The byte at the reader's position plus i.
ByteAt(r, i) == r.buffer[r.pos + i + 1]

\* WireRead::peek succeeds for n bytes.
CanRead(r, n) == r.pos + n <= Len(r.buffer)

\* label_type[0] >> 6
LabelType(r) == ByteAt(r, 0) \div 64

\* (u16::decode(reader)? ^ (0b11 << 14)) as usize
PointerOf(r) == (ByteAt(r, 0) % 64) * 256 + ByteAt(r, 1)

\* visited_positions.contains(&pointer) with this loop's position not pushed yet
ContainsBeforePush(r, pointer) ==
    \E i \in 1..Len(r.visited_positions) : r.visited_positions[i] = pointer

\* visited_positions.contains(&pointer), the position of this loop pushed first
Contains(r, pointer) ==
    \E i \in 1..(Len(r.visited_positions) + 1) :
        Append(r.visited_positions, r.pos)[i] = pointer

\* if let Some(pos) = seek_to_before_return { reader.seek_to(pos) }
SeekBack(r, pos) == IF r.seek_to_before_return # -1 THEN r.seek_to_before_return ELSE pos

\* The reader and the locals with this loop's position pushed.
Pushed(r) == [r EXCEPT !.visited_positions = Append(@, r.pos)]

\* reader.peek(&mut label_type)? at the end of the buffer
PeekFails ==
    /\ tpc = "decoding"
    /\ ~CanRead(packet, 1)
    /\ packet' = [Pushed(packet) EXCEPT !.result = "UnexpectedEnd"]
    /\ tpc' = "returned"
    /\ UNCHANGED <<msg, limit, orig, stream>>
    /\ UNCHANGED resolverVars

\* The arm 0b00: a length byte, then the label, or the end of the name.
ReadLabel ==
    /\ tpc = "decoding"
    /\ CanRead(packet, 1)
    /\ LabelType(packet) = 0
    /\ LET len == ByteAt(packet, 0)
           after_len == [Pushed(packet) EXCEPT !.pos = @ + 1]
       IN  IF len = 0
           THEN /\ packet' = [after_len EXCEPT !.pos = SeekBack(packet, after_len.pos),
                                               !.result = "Ok"]
                /\ tpc' = "returned"
           ELSE IF ~CanRead(after_len, len)
           THEN /\ packet' = [after_len EXCEPT !.result = "UnexpectedEnd"]
                /\ tpc' = "returned"
           ELSE /\ packet' = [after_len EXCEPT
                                 !.pos = @ + len,
                                 !.labels = Append(@, SubSeq(packet.buffer, packet.pos + 2,
                                                             packet.pos + 1 + len))]
                /\ tpc' = "decoding"
    /\ UNCHANGED <<msg, limit, orig, stream>>
    /\ UNCHANGED resolverVars

\* The arm 0b11 if Self::COMPRESS: the pointer is refused or followed.
FollowPointer ==
    /\ tpc = "decoding"
    /\ CanRead(packet, 1)
    /\ LabelType(packet) = 3
    /\ Compress(packet.name_type)
    /\ IF ~CanRead(packet, 2)
       THEN /\ packet' = [Pushed(packet) EXCEPT !.result = "UnexpectedEnd"]
            /\ tpc' = "returned"
       ELSE IF Contains(packet, PointerOf(packet))
       THEN /\ packet' = [Pushed(packet) EXCEPT !.pos = SeekBack(packet, packet.pos + 2),
                                                !.result = "UnsupportedFormat"]
            /\ tpc' = "returned"
       ELSE /\ packet' = [Pushed(packet) EXCEPT
                             !.seek_to_before_return = SeekBack(packet, packet.pos + 2),
                             !.pos = PointerOf(packet)]
            /\ tpc' = "decoding"
    /\ UNCHANGED <<msg, limit, orig, stream>>
    /\ UNCHANGED resolverVars

\* The arm _: any other label type, and a pointer in a name that is not
\* compressible.
RejectLabelType ==
    /\ tpc = "decoding"
    /\ CanRead(packet, 1)
    /\ LabelType(packet) # 0
    /\ ~(LabelType(packet) = 3 /\ Compress(packet.name_type))
    /\ packet' = [Pushed(packet) EXCEPT !.pos = SeekBack(packet, packet.pos),
                                        !.result = "UnsupportedFormat"]
    /\ tpc' = "returned"
    /\ UNCHANGED <<msg, limit, orig, stream>>
    /\ UNCHANGED resolverVars

\* Bytes of each kind: the end of a name, label lengths, the reserved label
\* types, a pointer's first byte. The small ones are also pointer targets.
NameBytes == {0, 1, 2, 64, 192}

NameBuffers == UNION {[1..n -> NameBytes] : n \in 1..MaxBufferLen}

InitName ==
    /\ \E name_type \in {"DomainName", "HostName"}, buffer \in NameBuffers :
           \E start_at \in 0..(Len(buffer) - 1) :
               packet = NewReader(name_type, buffer, start_at)
    /\ tpc = "decoding"
    /\ msg = NewMessage(0)
    /\ limit = 0
    /\ orig = NewMessage(0)
    /\ stream = NoStream
    /\ ResolverUnused

NextName ==
    \/ PeekFails
    \/ ReadLabel
    \/ FollowPointer
    \/ RejectLabelType

SpecName == InitName /\ [][NextName]_vars

\* The reader stands on the two bytes of a compression pointer.
AtPointer == tpc = "decoding" /\ CanRead(packet, 2) /\ LabelType(packet) = 3

\* The offsets looked at so far in this decode: where the name starts, where
\* each label and each pointer read so far starts, and where the reader stands.
VisitedOffsets ==
    {packet.visited_positions[i] : i \in 1..Len(packet.visited_positions)} \cup {packet.pos}

\* C19: decoding a compressible name, a pointer whose target is an offset
\* already visited in this decode (the start of the name, of a label or pointer
\* read so far, or of this pointer itself) makes the decode return
\* UnsupportedFormat; a pointer to any other offset is followed: the decode
\* goes on at the target.
VisitedPointerRefused ==
    [][ (AtPointer /\ packet.name_type = "DomainName")
        => IF PointerOf(packet) \in VisitedOffsets
           THEN tpc' = "returned" /\ packet'.result = "UnsupportedFormat"
           ELSE tpc' = "decoding" /\ packet'.pos = PointerOf(packet)
                /\ packet'.labels = packet.labels ]_vars

\* A compressible name whose first pointer was followed and whose next pointer
\* led back to a visited offset was refused.
VisitedPointerRefusedWitness ==
    /\ tpc = "returned"
    /\ packet.name_type = "DomainName"
    /\ packet.result = "UnsupportedFormat"
    /\ packet.seek_to_before_return # -1
    /\ Len(packet.visited_positions) >= 2
    /\ packet.buffer[packet.visited_positions[Len(packet.visited_positions)] + 1] = 192

\* C20: decoding a HostName, a byte with the top bits 11 where a label starts
\* makes the decode return UnsupportedFormat at once: the reader does not
\* move, whether the pointer's second byte is there or not and wherever it
\* would lead.
HostNamePointerRefused ==
    [][ (tpc = "decoding" /\ packet.name_type = "HostName"
         /\ CanRead(packet, 1) /\ LabelType(packet) = 3)
        => /\ tpc' = "returned"
           /\ packet'.result = "UnsupportedFormat"
           /\ packet'.pos = packet.pos
           /\ packet'.seek_to_before_return = -1 ]_vars

\* A HostName was refused at a pointer that follows a label and targets an
\* offset not visited.
HostNamePointerRefusedWitness ==
    /\ tpc = "returned"
    /\ packet.name_type = "HostName"
    /\ packet.result = "UnsupportedFormat"
    /\ packet.labels # <<>>
    /\ CanRead(packet, 2)
    /\ LabelType(packet) = 3
    /\ ~ContainsBeforePush(packet, PointerOf(packet))

----------------------------------------------------------------------------
(* Labels: equality and hashing *)

MaxLabelLen == 2

\* u8::to_ascii_uppercase left out
KeepByte(byte) == byte

\* u8::to_ascii_uppercase: the bytes a..z go to A..Z, every other byte stays.
ToAsciiUppercase(byte) == IF byte >= 97 /\ byte <= 122 THEN byte - 32 ELSE byte

\* Label::normalized_bytes
NormalizedBytes(label) == [i \in 1..Len(label) |-> ToAsciiUppercase(label[i])]

\* PartialEq for Label
LabelEq(self, other) ==
    IF Len(self) # Len(other) THEN FALSE
    ELSE NormalizedBytes(self) = NormalizedBytes(other)

\* Hash for Label: what is written to the hasher.
LabelHash(self) == <<Len(self)>> \o NormalizedBytes(self)

IsAsciiLetter(byte) == (byte >= 65 /\ byte <= 90) \/ (byte >= 97 /\ byte <= 122)

\* The same letter in the other case.
OtherCase(byte) == IF byte <= 90 THEN byte + 32 ELSE byte - 32

\* The letters at both ends of the alphabet in both cases, and the bytes next
\* to them, which differ by the same bit and are no letters.
LabelBytes == {64, 65, 90, 91, 96, 97, 122, 123}

LabelPool == UNION {[1..n -> LabelBytes] : n \in 1..MaxLabelLen}

\* Two labels, the outcome of comparing them as they were built, and whether
\* a letter has been written in the other case since.
InitLabel ==
    /\ \E left \in LabelPool, right \in LabelPool :
           packet = [left |-> left, right |-> right, eq |-> LabelEq(left, right),
                     flipped |-> FALSE]
    /\ tpc = "labels"
    /\ msg = NewMessage(0)
    /\ limit = 0
    /\ orig = NewMessage(0)
    /\ stream = NoStream
    /\ ResolverUnused

\* A letter of the left label is written in the other case.
FlipLeft(i) ==
    /\ tpc = "labels"
    /\ i \in 1..Len(packet.left)
    /\ IsAsciiLetter(packet.left[i])
    /\ packet' = [packet EXCEPT !.left[i] = OtherCase(@), !.flipped = TRUE]
    /\ UNCHANGED <<msg, limit, orig, tpc, stream>>
    /\ UNCHANGED resolverVars

\* A letter of the right label is written in the other case.
FlipRight(i) ==
    /\ tpc = "labels"
    /\ i \in 1..Len(packet.right)
    /\ IsAsciiLetter(packet.right[i])
    /\ packet' = [packet EXCEPT !.right[i] = OtherCase(@), !.flipped = TRUE]
    /\ UNCHANGED <<msg, limit, orig, tpc, stream>>
    /\ UNCHANGED resolverVars

FlipAnyLeft == \E i \in 1..MaxLabelLen : FlipLeft(i)

FlipAnyRight == \E i \in 1..MaxLabelLen : FlipRight(i)

NextLabel ==
    \/ FlipAnyLeft
    \/ FlipAnyRight

SpecLabel == InitLabel /\ [][NextLabel]_vars

\* The two bytes are the same, or the same ASCII letter in two cases.
SameUpToCase(a, b) == a = b \/ (IsAsciiLetter(a) /\ b = OtherCase(a))

\* C21: two labels are equal exactly when they have the same length and their
\* bytes agree up to the case of ASCII letters; bytes that are not letters must
\* be the same byte; writing letters of either label in the other case never
\* changes the outcome of the comparison, and equal labels hash alike.
LabelEqFoldsAsciiCase ==
    tpc = "labels"
    => /\ LabelEq(packet.left, packet.right)
          <=> /\ Len(packet.left) = Len(packet.right)
              /\ \A i \in 1..Len(packet.left) : SameUpToCase(packet.left[i], packet.right[i])
       /\ LabelEq(packet.left, packet.right) = packet.eq
       /\ LabelEq(packet.left, packet.right)
          => LabelHash(packet.left) = LabelHash(packet.right)

\* Two labels built equal still compare equal after letters were written in the
\* other case: "Az" and "aZ".
LabelEqFoldsAsciiCaseWitness ==
    /\ tpc = "labels"
    /\ packet.flipped
    /\ packet.left = <<65, 122>>
    /\ packet.right = <<97, 90>>
    /\ packet.eq
    /\ LabelEq(packet.left, packet.right)

----------------------------------------------------------------------------
(* Serial numbers compared *)

\* The 16-bit limbs 32-bit inputs are built from: both ends, the middle, and
\* their neighbours.
HighLimbs == {0, 1, 32767, 32768, 65535}

LowLimbs == {0, 1, 65535}

SerialInputs == {<<high, low>> : high \in HighLimbs, low \in LowLimbs}

\* A serial number and a distance, not yet compared.
InitSerial ==
    /\ \E a \in SerialInputs, k \in SerialInputs :
           packet = [a |-> a, k |-> k, b |-> WrappingAdd(a, k)]
    /\ tpc = "serials"
    /\ msg = NewMessage(0)
    /\ limit = 0
    /\ orig = NewMessage(0)
    /\ stream = NoStream
    /\ ResolverUnused

\* Serial(a).partial_cmp(&Serial(b)) both ways round, and a with itself.
Compare ==
    /\ tpc = "serials"
    /\ packet' = [a |-> packet.a, k |-> packet.k, b |-> packet.b,
                  forward |-> SerialCmp(packet.a, packet.b),
                  backward |-> SerialCmp(packet.b, packet.a),
                  same |-> SerialCmp(packet.a, packet.a)]
    /\ tpc' = "compared"
    /\ UNCHANGED <<msg, limit, orig, stream>>
    /\ UNCHANGED resolverVars

NextSerial == Compare

SpecSerial == InitSerial /\ [][NextSerial]_vars

\* C22: for a 32-bit a and a distance k, with b = a + k modulo 2^32: a compares
\* Less than b and b Greater than a when 0 < k < 2^31, a compares Equal to
\* itself, and a and b are not ordered (None) when k = 2^31.
SerialOrderWithinHalfRange ==
    tpc = "compared"
    => /\ packet.same = "Equal"
       /\ (packet.k # <<0, 0>> /\ packet.k[1] < 32768)
          => (packet.forward = "Less" /\ packet.backward = "Greater")
       /\ packet.k = <<32768, 0>> => packet.forward = "None"

\* 2^32 - 1 was compared with the number 2^31 - 1 further on, which wraps
\* around to 2^31 - 2: Less.
SerialOrderWithinHalfRangeWitness ==
    /\ tpc = "compared"
    /\ packet.a = <<65535, 65535>>
    /\ packet.k = <<32767, 65535>>
    /\ packet.b = <<32767, 65534>>
    /\ packet.forward = "Less"

----------------------------------------------------------------------------
(* Records on the wire *)

\* What Record::encode writes: the owner, type and class, the length of the
\* data cast to 16 bits, and all of the data; written counts the bytes.
RecordWire(r) ==
    [name |-> r.name, rtype |-> r.rtype, rclass |-> r.rclass,
     len |-> DataSize(r) % 65536,
     data |-> r.target,
     written |-> NameSize(r.name) + 2 + 2 + 4 + 2 + DataSize(r)]

\* TxtRecord::decode_data: strings are read until the length of the data is
\* used up, so the loop ends behind the first string with which the lengths read
\* reach the expected length; the outcome is the number of strings read, or -1
\* for an error (the lengths read pass the expected length, or the data ends).
TxtStringsRead(data, expected) ==
    LET used(n) == SumSeq([i \in 1..n |-> data[i] + 1])
        ends == {n \in 0..Len(data) : used(n) >= expected}
    IN  IF ends = {} THEN -1
        ELSE LET n == CHOOSE e \in ends : \A other \in ends : e <= other
             IN  IF used(n) = expected THEN n ELSE -1

\* RecordData::decode_data of each record type succeeds.
RecordDecodes(w) ==
    CASE w.rtype = TypeA -> w.len = 4
      [] w.rtype = TypeNs -> NameSize(w.data) = w.len
      [] w.rtype = TypeCname -> NameSize(w.data) = w.len
      [] w.rtype = TypeMx -> NameSize(w.data) + 2 = w.len
      [] w.rtype = TypeSoa -> NameSize(w.data) + NameSize(w.data) + 20 = w.len
      [] w.rtype = TypeTxt -> TxtStringsRead(w.data, w.len) # -1

\* Record::decode: the record built from the header and the data read.
RecordOfWire(w) ==
    Rec(w.name, w.rclass, w.rtype,
        IF w.rtype = TypeTxt
        THEN SubSeq(w.data, 1, TxtStringsRead(w.data, w.len))
        ELSE w.data)

\* The numbers of strings of a TXT record: none, few, and as many as make the
\* data 65,536 bytes and more with strings of 255 bytes.
TxtCounts == {0, 1, 2, 256, 257}

TxtLengths == {0, 1, 255}

\* The records built by the constructors.
RecordInputs ==
    {Rec(name, In, TypeA, Root) : name \in {Root, Ex, WwwEx}}
    \cup {Rec(name, In, rtype, target) :
             name \in {Root, Ex, WwwEx}, rtype \in {TypeNs, TypeCname, TypeMx, TypeSoa},
             target \in {Ex, HostEx}}
    \cup {Rec(name, In, TypeTxt, [i \in 1..count |-> length]) :
             name \in {Root, Ex, WwwEx}, count \in TxtCounts, length \in TxtLengths}

InitRecord ==
    /\ \E r \in RecordInputs : packet = [record |-> r]
    /\ tpc = "built"
    /\ msg = NewMessage(0)
    /\ limit = 0
    /\ orig = NewMessage(0)
    /\ stream = NoStream
    /\ ResolverUnused

\* to_wire(&record)
EncodeRecord ==
    /\ tpc = "built"
    /\ packet' = [record |-> packet.record, wire |-> RecordWire(packet.record)]
    /\ tpc' = "encoded"
    /\ UNCHANGED <<msg, limit, orig, stream>>
    /\ UNCHANGED resolverVars

\* from_wire::<Record>(..) of the bytes
DecodeRecord ==
    /\ tpc = "encoded"
    /\ IF RecordDecodes(packet.wire)
       THEN /\ packet' = [record |-> packet.record, wire |-> packet.wire,
                          decoded |-> RecordOfWire(packet.wire)]
            /\ tpc' = "decoded"
       ELSE /\ packet' = packet
            /\ tpc' = "failed"
    /\ UNCHANGED <<msg, limit, orig, stream>>
    /\ UNCHANGED resolverVars

NextRecord ==
    \/ EncodeRecord
    \/ DecodeRecord

SpecRecord == InitRecord /\ [][NextRecord]_vars

\* C23: every record a constructor builds is encoded in as many bytes as its
\* size() reports, and decoding those bytes succeeds and gives an equal record.
RecordRoundTrips ==
    /\ tpc = "encoded" => packet.wire.written = RecordSize(packet.record)
    /\ tpc # "failed"
    /\ tpc = "decoded" => packet.decoded = packet.record

----------------------------------------------------------------------------
(* Termination of resolve_query *)

\* Queries of one question of every kind, and of two questions that lead into
\* the cycle of aliases and to the mail exchange.
LoopQueries ==
    { [NewMessage(4660) EXCEPT !.recursion_desired = TRUE, !.questions = qs] :
      qs \in {<<q>> : q \in QuestionPool}
             \cup {<<q1, q2>> : q1 \in {Question(WwwEx, In, TypeA), Question(Ex, In, TypeMx)},
                                q2 \in {Question(MailEx, In, TypeA), Question(MissEx, In, TypeA)}} }

ReceiveLoop == \E q \in LoopQueries : ResolveImpl(q)

NextLoop ==
    \/ ReceiveLoop
    \/ ResolveQueryStep
    \/ ResolveQueryReturn
    \/ Respond

\* The loop of resolve_query runs on: no await stands between its iterations.
SpecLoop ==
    /\ InitResolve
    /\ [][NextLoop]_vars
    /\ WF_vars(ResolveQueryStep)
    /\ WF_vars(ResolveQueryReturn)

\* C24: resolve_query returns for every zone and query, and an iteration of
\* its loop adds to the response or to the worklist only for a question that
\* is not in the resolved set yet, which it then joins: every question is
\* processed at most once for a query.
ResolveQueryTerminates ==
    /\ [][ (pc = "resolving" /\ queue # <<>>
            /\ (response' # response \/ Len(queue') >= Len(queue)))
           => (Dequeued.q \notin resolved /\ resolved' = resolved \cup {Dequeued.q}) ]_vars
    /\ (pc = "resolving") ~> (pc = "done")

\* resolve_query returned after it went round the cycle of aliases
\* www -> host -> mail -> www, each of the three names processed.
ResolveQueryTerminatesWitness ==
    /\ pc = "done"
    /\ {Rec(WwwEx, In, TypeCname, HostEx), Rec(HostEx, In, TypeCname, MailEx),
        Rec(MailEx, In, TypeCname, WwwEx)} \subseteq zone
    /\ {Question(WwwEx, In, TypeA), Question(HostEx, In, TypeA),
        Question(MailEx, In, TypeA)} \subseteq resolved

----------------------------------------------------------------------------
(* The sections of a finished response *)

\* C26: a response with RCODE Refused has an empty answer section and an
\* empty authority section, whatever the number of questions of the query and
\* whichever of them is refused.
RefusedResponseIsBare ==
    (pc = "done" /\ response.response_code = QueryRefused)
    => (response.answers = <<>> /\ response.authorities = <<>>)

\* The records of a sequence as a set.
Range(records) == {records[i] : i \in 1..Len(records)}

\* C27: in a response with RCODE NoError, the records of (qclass, qtype) held
\* by the node of a question of the query, when the node holds no CNAME of the
\* class, are all in the answer section, also when the same question was chased
\* as an Additional follow-up within the query.
QuestionsAnsweredInAnswerSection ==
    (pc = "done" /\ response.response_code = NoError)
    => \A i \in 1..Len(query.questions) :
           LET q == query.questions[i]
           IN  ResourceRecordSet(q.name, q.qclass, TypeCname) = <<>>
               => Range(ResourceRecordSet(q.name, q.qclass, q.qtype)) \subseteq Range(response.answers)

\* C28: no record stands twice in the authority section of a finished
\* response, for any zone and query.
AuthoritiesWithoutDuplicates ==
    pc = "done"
    => \A i \in 1..Len(response.authorities) : \A j \in 1..Len(response.authorities) :
           response.authorities[i] = response.authorities[j] => i = j

----------------------------------------------------------------------------
(* Zone files: entries, newlines and parentheses *)

MaxTail == 4

\* ZoneToken::String by what the string parses as: a number (a TTL, a
\* priority, also a name), the class IN, the type MX.
StringTokens == {"num", "in", "mx"}

BlankTokens == {"ws", "nl", "open", "close"}

\* The ZoneReader that read_zone builds over the tokens of the source; pos is
\* the number of tokens the lexer has produced, peeked is "nothing" for
\* peeked = None and "eof" for peeked = Some(None).
NewZoneReader(source) ==
    [source |-> source, pos |-> 0, peeked |-> "nothing", parentheses |-> 0,
     name |-> FALSE, ttl |-> FALSE, rclass |-> FALSE, records |-> 0,
     token |-> "nothing", error |-> "none"]

\* ZoneReader::error
Failed(reader, kind) == [reader EXCEPT !.error = kind]

\* Lexer::next: the next token, or None at the end of the source
LexerNext(reader) ==
    IF reader.pos < Len(reader.source)
    THEN [reader EXCEPT !.pos = @ + 1, !.token = reader.source[reader.pos + 1]]
    ELSE [reader EXCEPT !.token = "eof"]

\* reader.lexer.span().end == reader.lexer.source().len()
AtEndOfSource(reader) == reader.pos = Len(reader.source)

\* ZoneReader::read
Read(reader) ==
    LET taken == IF reader.peeked # "nothing"
                 THEN [reader EXCEPT !.peeked = "nothing", !.token = reader.peeked]
                 ELSE LexerNext(reader)
    IN  CASE taken.token = "open" -> [taken EXCEPT !.parentheses = @ + 1]
          [] taken.token = "close" ->
                IF taken.parentheses = 0
                THEN Failed(taken, "MissingOpeningParentheses")
                ELSE [taken EXCEPT !.parentheses = @ - 1]
          [] taken.token \in {"nl", "eof"} ->
                IF taken.parentheses = 0 THEN Failed(taken, "IncompleteEntry")
                ELSE IF taken.token = "eof" THEN Failed(taken, "MissingClosingParentheses")
                ELSE taken
          [] OTHER -> taken

\* ZoneReader::peek: the reader with the token peeked
Peeked(reader) ==
    IF reader.peeked # "nothing" THEN reader
    ELSE [LexerNext(reader) EXCEPT !.peeked = LexerNext(reader).token]

\* ZoneReader::peek: what it returns, "nothing" for None
Peek(reader) ==
    LET token == Peeked(reader).peeked
    IN  IF token = "eof" \/ (token = "nl" /\ reader.parentheses = 0) THEN "nothing" ELSE token

\* ZoneReader::read_blank
RECURSIVE ReadBlank(_, _)
ReadBlank(reader, read) ==
    IF Peek(reader) \in BlankTokens
    THEN LET next == Read(Peeked(reader))
         IN  IF next.error # "none" THEN next ELSE ReadBlank(next, read + 1)
    ELSE IF read # 0 THEN Peeked(reader)
    ELSE IF Peek(reader) # "nothing" THEN Failed(Peeked(reader), "BadEntry")
    ELSE Failed(Peeked(reader), "IncompleteEntry")

\* ZoneReader::read_string
ReadString(reader) ==
    LET next == Read(reader)
    IN  IF next.error # "none" \/ next.token \in StringTokens THEN next
        ELSE Failed(next, "BadEntry")

\* MxRecord::decode_zone: the priority, blanks, the exchange; then the record
\* is added to the tree.
MxDecodeZone(reader) ==
    LET priority == ReadString(reader)
        blank == ReadBlank(priority, 0)
        exchange == ReadString(blank)
    IN  IF priority.error # "none" THEN priority
        ELSE IF priority.token # "num" THEN Failed(priority, "BadEntry")
        ELSE IF blank.error # "none" THEN blank
        ELSE IF exchange.error # "none" THEN exchange
        ELSE [exchange EXCEPT !.records = @ + 1]

\* handle_resource: TTL, class and type in its loop, then the data of the type.
\* Unwrapping a name, TTL or class that no entry has set panics.
RECURSIVE HandleResource(_, _, _)
HandleResource(reader, defined_ttl, defined_rclass) ==
    LET string == Read(reader)
        after == IF Peek(string) = "ws" THEN [Read(Peeked(string)) EXCEPT !.token = string.token]
                 ELSE Peeked(string)
    IN  IF string.error # "none" \/ string.token \notin StringTokens
        THEN Failed(string, "IncompleteEntry")
        ELSE IF Peek(string) \notin {"ws", "nothing"} THEN Failed(Peeked(string), "BadEntry")
        ELSE IF ~defined_ttl /\ string.token = "num"
        THEN HandleResource([after EXCEPT !.ttl = TRUE], TRUE, defined_rclass)
        ELSE IF ~defined_rclass /\ string.token = "in"
        THEN HandleResource([after EXCEPT !.rclass = TRUE], defined_ttl, TRUE)
        ELSE IF string.token # "mx" THEN Failed(after, "IncompleteEntry")
        ELSE IF ~(after.name /\ after.ttl /\ after.rclass) THEN Failed(Peeked(after), "panic")
        ELSE MxDecodeZone(Peeked(after))

\* next_entry
RECURSIVE NextEntry(_, _)
NextEntry(reader, ok) ==
    IF AtEndOfSource(reader) THEN reader
    ELSE IF Peek(reader) = "ws" /\ ok THEN Peeked(reader)
    ELSE IF Peek(reader) \in BlankTokens \cup {"nothing"}
    THEN LET next == Read(Peeked(reader))
         IN  IF next.error = "none" THEN NextEntry(next, ok)
             ELSE IF next.error = "IncompleteEntry"
             THEN NextEntry([next EXCEPT !.error = "none"], TRUE)
             ELSE next
    ELSE IF ok THEN Peeked(reader)
    ELSE Failed(Peeked(reader), "BadEntry")

\* The body of the loop of read_zone up to next_entry: the owner name if the
\* entry starts with one, then the resource.
EntryRead(reader) ==
    LET named == Peek(reader) \in StringTokens
        name == ReadString(Peeked(reader))
        start == IF named THEN [name EXCEPT !.name = TRUE] ELSE Peeked(reader)
        first == Read(start)
    IN  IF named /\ name.error # "none" THEN name
        ELSE IF named /\ Peek(start) = "nothing" THEN Failed(Peeked(start), "IncompleteEntry")
        ELSE IF named /\ Peek(start) # "ws" THEN Failed(Peeked(start), "BadEntry")
        ELSE IF first.error = "IncompleteEntry" THEN [first EXCEPT !.error = "none"]
        ELSE IF first.error # "none" THEN first
        ELSE IF first.token = "ws" THEN HandleResource(first, FALSE, FALSE)
        ELSE IF first.token \in StringTokens THEN Failed(first, "UnknownControl")
        ELSE Failed(first, "BadEntry")

\* An entry with owner, TTL, class and type up to its data.
EntryHead == <<"mx", "ws", "num", "ws", "in", "ws", "mx", "ws">>

TailTokens == {"num", "mx", "ws", "nl", "open", "close"}

\* The head of a second entry, which takes owner, TTL and class from the first.
FollowingHead == <<"nl", "ws", "mx", "ws">>

\* The data of an MX entry written on one line and with parentheses, closed
\* and left open.
DataShapes ==
    { <<"num", "ws", "num">>, <<"num", "open", "num", "close">>,
      <<"num", "open", "nl", "num", "close">>, <<"num", "open", "num">> }

Tails(n) == UNION {[1..k -> TailTokens] : k \in 0..n}

\* The sources read: the head of an entry and up to MaxTail tokens after it,
\* and two entries, the second with up to MaxTail - 1 tokens after its head.
\* The lexer makes one token of a run of blanks, of line ends and of the
\* characters of a string: no two such tokens stand side by side.
Lexable(source) ==
    \A i \in 1..(Len(source) - 1) :
        /\ ~(source[i] \in StringTokens /\ source[i + 1] \in StringTokens)
        /\ ~(source[i] = "ws" /\ source[i + 1] = "ws")
        /\ ~(source[i] = "nl" /\ source[i + 1] = "nl")

ZoneSources ==
    { source \in {EntryHead \o tail : tail \in Tails(MaxTail)}
                 \cup {EntryHead \o data \o FollowingHead \o tail :
                          data \in DataShapes, tail \in Tails(MaxTail - 1)} :
      Lexable(source) }

InitZone ==
    /\ \E source \in ZoneSources : packet = NewZoneReader(source)
    /\ tpc = "reading"
    /\ msg = NewMessage(0)
    /\ limit = 0
    /\ orig = NewMessage(0)
    /\ stream = NoStream
    /\ ResolverUnused

\* One iteration of the loop of read_zone.
ReadEntry ==
    /\ tpc = "reading"
    /\ ~AtEndOfSource(packet)
    /\ LET entry == EntryRead(packet)
           next == IF entry.error = "none" THEN NextEntry(entry, FALSE) ELSE entry
       IN  /\ packet' = next
           /\ tpc' = IF next.error = "none" THEN "reading" ELSE "failed"
    /\ UNCHANGED <<msg, limit, orig, stream>>
    /\ UNCHANGED resolverVars

\* The loop of read_zone breaks at the end of the source: Ok(reader.root).
ReturnZone ==
    /\ tpc = "reading"
    /\ AtEndOfSource(packet)
    /\ tpc' = "returned"
    /\ UNCHANGED <<msg, limit, orig, packet, stream>>
    /\ UNCHANGED resolverVars

NextZone ==
    \/ ReadEntry
    \/ ReturnZone

SpecZone == InitZone /\ [][NextZone]_vars

\* The number of parentheses open after the first n tokens of a source, -1 once
\* a closing parenthesis came without an open one.
RECURSIVE Depth(_, _)
Depth(source, n) ==
    IF n = 0 THEN 0
    ELSE LET before == Depth(source, n - 1)
         IN  IF before = -1 THEN -1
             ELSE IF source[n] = "open" THEN before + 1
             ELSE IF source[n] = "close" THEN before - 1
             ELSE before

\* C25: read_zone returns a zone only for a source whose parentheses are
\* balanced: no closing parenthesis without an open one, and none left open at
\* the end of the input.
ZoneOnlyIfBalanced ==
    tpc = "returned" => Depth(packet.source, Len(packet.source)) = 0

----------------------------------------------------------------------------
(* Frames on a stream *)

\* C29: every response frame written on a stream connection carries a length
\* prefix equal to the number of message bytes written behind it, whatever the
\* size of the response.
LengthPrefixCountsBytes ==
    \A i \in 1..Len(stream.writes) : stream.writes[i].length = stream.writes[i].bytes

----------------------------------------------------------------------------
(* The flags of the OPT pseudo-record *)

\* A u32 as its bits, bit 0 the lowest.
WordBits == 0..31
ZeroWord == [i \in WordBits |-> 0]

\* 2^n for the shifts of bitfield.rs.
RECURSIVE Shl(_)
Shl(n) == IF n = 0 THEN 1 ELSE 2 * Shl(n - 1)

\* BitField::get_flag
GetFlag(word, bit) == word[bit] = 1

\* BitField::get_bits: the bits of range <<start, end>>, shifted down.
GetBits(word, range) ==
    SumSeq([i \in 1..(range[2] - range[1]) |-> word[range[1] + i - 1] * Shl(i - 1)])

\* BitFieldAssign::set_flag
SetFlag(word, bit, value) == [word EXCEPT ![bit] = IF value THEN 1 ELSE 0]

\* BitFieldAssign::set_bits: the bits of the range are cleared and taken from
\* value; the bits of value beyond the range are masked off.
SetBits(word, range, value) ==
    [i \in WordBits |->
        IF i >= range[1] /\ i < range[2]
        THEN (value \div Shl(i - range[1])) % 2
        ELSE word[i]]

\* The constants of OptRecord.
BitsResponseCode == <<24, 32>>
BitsVersion == <<16, 24>>
FlagDnssecOk == 16
BitsZero == <<0, 16>>

\* ResponseCode::header_bits and ResponseCode::extended_bits
HeaderBits(response_code) == response_code % 16
ExtendedBits(response_code) == (response_code \div 16) % 256

\* The TTL word Message::encode builds for the OPT record.
OptFlags(m) ==
    LET coded == SetBits(ZeroWord, BitsResponseCode, ExtendedBits(m.response_code))
        versioned == SetBits(coded, BitsVersion, m.edns_version)
        flagged == SetFlag(versioned, FlagDnssecOk, m.dnssec_ok)
    IN  SetBits(flagged, BitsZero, m.extended_zero)

\* What Message::decode makes of the header bits and the TTL word of the OPT
\* record.
EdnsDecoded(header_bits, udp_payload_size, opt_flags) ==
    [ udp_payload_size |-> Max(udp_payload_size, 512),
      response_code |-> GetBits(opt_flags, BitsResponseCode) * 16 + header_bits,
      edns_version |-> GetBits(opt_flags, BitsVersion),
      dnssec_ok |-> GetFlag(opt_flags, FlagDnssecOk),
      extended_zero |-> GetBits(opt_flags, BitsZero) ]

EdnsVersions == {0, 1, 2, 254, 255}
ExtendedZeros == {0, 1, 32768, 65535}
ResponseCodes == {0, 5, 15, 16, 23, 4095}
PayloadSizes == {512, 1232, 65535}

\* Messages with EDNS enabled, as the setters of Message make them.
EdnsMessages ==
    [ udp_payload_size : PayloadSizes,
      response_code : ResponseCodes,
      edns_version : EdnsVersions,
      dnssec_ok : BOOLEAN,
      extended_zero : ExtendedZeros ]

InitEdns ==
    /\ packet \in [message : EdnsMessages, dnssec_ok_set : {FALSE}]
    /\ tpc = "built"
    /\ msg = NewMessage(0)
    /\ limit = 0
    /\ orig = NewMessage(0)
    /\ stream = NoStream
    /\ ResolverUnused

\* Message::set_dnssec_ok on a message that is still to be encoded.
SetDnssecOk ==
    /\ tpc = "built"
    /\ ~packet.dnssec_ok_set
    /\ \E value \in BOOLEAN :
         packet' = [message |-> [packet.message EXCEPT !.dnssec_ok = value],
                    dnssec_ok_set |-> TRUE]
    /\ UNCHANGED tpc
    /\ UNCHANGED <<msg, limit, orig, stream>>
    /\ UNCHANGED resolverVars

\* Message::encode: the RCODE bits of the header, the class and the TTL word of
\* the OPT record.
EncodeEdns ==
    /\ tpc = "built"
    /\ packet' = [message |-> packet.message,
                  dnssec_ok_set |-> packet.dnssec_ok_set,
                  header_bits |-> HeaderBits(packet.message.response_code),
                  rclass |-> packet.message.udp_payload_size,
                  opt_flags |-> OptFlags(packet.message)]
    /\ tpc' = "encoded"
    /\ UNCHANGED <<msg, limit, orig, stream>>
    /\ UNCHANGED resolverVars

\* Message::decode of what was written.
DecodeEdns ==
    /\ tpc = "encoded"
    /\ packet' = [message |-> packet.message,
                  dnssec_ok_set |-> packet.dnssec_ok_set,
                  decoded |-> EdnsDecoded(packet.header_bits, packet.rclass,
                                          packet.opt_flags)]
    /\ tpc' = "decoded"
    /\ UNCHANGED <<msg, limit, orig, stream>>
    /\ UNCHANGED resolverVars

NextEdns ==
    \/ SetDnssecOk
    \/ EncodeEdns
    \/ DecodeEdns

SpecEdns == InitEdns /\ [][NextEdns]_vars

\* C30: a message with EDNS enabled and a payload size of at least 512 decodes
\* to the EDNS version, DO flag, extended-zero bits and 12-bit RCODE it was
\* encoded with; in particular the decoded version does not depend on the DO
\* flag, nor the decoded DO flag on the version.
EdnsFlagsRoundTrip ==
    tpc = "decoded" =>
        /\ packet.decoded.edns_version = packet.message.edns_version
        /\ packet.decoded.dnssec_ok = packet.message.dnssec_ok
        /\ packet.decoded.extended_zero = packet.message.extended_zero
        /\ packet.decoded.response_code = packet.message.response_code

====
